---- MODULE Spec2Model ----
(***************************************************************************)
(* State-machine model of onnx2trt::ModelImporter                          *)
(* (src/onnx_parser/onnx_parser_7.x/ModelImporter.cpp): parse,             *)
(* importModel, importInputs, parseGraph and supportsModel, acting on one  *)
(* importer instance with one import context.                              *)
(*                                                                         *)
(* Node indices are 0-based as in the source; -1 is the no-node marker.    *)
(* Sequences are 1-based, so node i of a model m is m.node[i + 1].         *)
(***************************************************************************)
EXTENDS Integers, Sequences, FiniteSets, TLC

\* ------------------------------------------------------------------ bounds

\* Longest dependency chain generated for the chain family of models.
MaxNodes == 3

\* Number of entry-point calls made on one importer in a session.
MaxCalls == 2

\* ------------------------------------------------------- program constants

\* The node index of an error that belongs to no node.
NoNode == -1

\* Floating-point NaN, as an attribute value of trt_outputs_range_min/max.
NaN == -1

kINVALID_GRAPH == "kINVALID_GRAPH"
kINVALID_VALUE == "kINVALID_VALUE"
kUNSUPPORTED_NODE == "kUNSUPPORTED_NODE"
kUNSUPPORTED_GRAPH == "kUNSUPPORTED_GRAPH"
kMODEL_DESERIALIZE_FAILED == "kMODEL_DESERIALIZE_FAILED"
kSUCCESS == "kSUCCESS"

\* What __FILE__ expands to in ModelImporter.cpp: the path the compiler was
\* given for the file.  That is the path of the file in the repository when
\* the file is compiled from the root of the source tree, its absolute path
\* when the build system passes that (as CMake does), the bare file name
\* when the build maps the directory prefix away, and the path under the
\* directory the file was copied to otherwise.
SourcePaths ==
    {"src/onnx_parser/onnx_parser_7.x/ModelImporter.cpp",
     "/root/workspace/src/onnx_parser/onnx_parser_7.x/ModelImporter.cpp",
     "ModelImporter.cpp",
     "code/ModelImporter.cpp"}

\* __FILE__ of the ASSERT macros of a converter.
ConverterFile == "builtin_op_importers.cpp"

\* The key under which the fallback converter is stored in the op map.
FallbackKey == "FallbackPluginImporter"

\* Keys of the converter map (getBuiltinOpImporterMap / _op_importers).
RegisteredOps == {"Known", "Loop", FallbackKey}

\* ------------------------------------------------------------------ values

\* A TensorOrWeights: k is "empty" (a null tensor: TensorOrWeights{} and
\* TensorOrWeights(nullptr)), "weights", "input" (a network input tensor) or
\* "node" (a tensor produced by a converter).  c is the call that made it,
\* i and j the index of its maker and the position among its outputs; the
\* weights of initializer i have j = 0, those converted from the weight
\* descriptor of graph input i have j = 1.
Value(k, c, i, j) == [k |-> k, c |-> c, i |-> i, j |-> j]

Empty == Value("empty", 0, -1, -1)

\* IsSet that takes a null tensor for a value.
IsSet_Always(v) == TRUE

\* TensorOrWeights::operator bool() || is_weights()
IsSet(v) == v.k # "empty"

Range(s) == {s[k] : k \in 1..Len(s)}

Min(S) == CHOOSE x \in S : \A y \in S : x <= y

\* The map with no key.
NoMap == [x \in {} |-> 0]

Put(map, key, v) == [x \in DOMAIN map \cup {key} |-> IF x = key THEN v ELSE map[x]]

\* ------------------------------------------------------- the ONNX models

\* A NodeProto.  conv is what the converter dispatched for the node does:
\* "ok" (returns one value per declared output), "null" (returns a null
\* tensor per declared output) or "fail" (returns an error status).  loc,
\* rmin, rmax and prec are the attributes trt_outputs_loc,
\* trt_outputs_range_min, trt_outputs_range_max and trt_layer_precision
\* ("none": the attribute is absent).  bad: the layer built for the node
\* yields a shape tensor from a layer type that does not support one.
Nd(op, name, inp, out, conv) ==
    [op |-> op, name |-> name, input |-> inp, output |-> out, conv |-> conv,
     loc |-> <<>>, rmin |-> <<>>, rmax |-> <<>>, prec |-> "none", bad |-> FALSE]

\* A graph input (ValueInfoProto): ok is "ok", "dtype" (convertDtype fails)
\* or "dims" (convertOnnxDims fails); rank is its declared number of
\* dimensions; shp tells whether the network input is a shape tensor
\* ("no", "i32", "f32").
In(name) == [name |-> name, ok |-> "ok", rank |-> 2, shp |-> "no"]

\* A graph output (ValueInfoProto): dt is "ok" (its element type converts,
\* to a float type), "i32" (it converts to INT32) or "bad" (it does not
\* convert).
Out(name) == [name |-> name, dt |-> "ok"]

\* An initializer (TensorProto): ok tells whether convertOnnxWeights succeeds.
Ini(name) == [name |-> name, ok |-> TRUE]

\* A serialized model that deserializes to the given graph.
Mdl(inits, ins, outs, nodes) ==
    [ok |-> TRUE, trt |-> FALSE, initializer |-> inits, input |-> ins,
     output |-> outs, node |-> nodes]

\* Bytes that do not deserialize.
Garbage == [Mdl(<<>>, <<>>, <<>>, <<>>) EXCEPT !.ok = FALSE]

\* The model of a default-constructed ::onnx::ModelProto.
EmptyModel == Mdl(<<>>, <<>>, <<>>, <<>>)

ChainTensor == <<"z", "w", "v", "u", "s", "r">>
ChainNodeName == <<"A", "B", "C", "D", "E", "F">>

\* Node k of a dependency chain: the first consumes the graph inputs x and
\* y, every other one the output of its predecessor.
ChainNode(k, op, conv) ==
    Nd(op, ChainNodeName[k],
       IF k = 1 THEN <<"x", "y">> ELSE <<ChainTensor[k - 1]>>,
       <<ChainTensor[k]>>, conv)

\* A chain of n nodes, stored in dependency order or (rev) in reverse.
Chain(n, ops, convs, rev) ==
    Mdl(<<>>, <<In("x"), In("y")>>,
        IF n = 0 THEN <<>> ELSE <<Out(ChainTensor[n])>>,
        [k \in 1..n |->
            LET j == IF rev THEN n + 1 - k ELSE k
            IN  ChainNode(j, ops[j], convs[j])])

ChainModels ==
    UNION {{Chain(n, ops, convs, rev) :
                ops \in [1..n -> {"Known", "Unreg"}],
                convs \in [1..n -> {"ok", "fail"}],
                rev \in IF n < 2 THEN {FALSE} ELSE BOOLEAN} :
           n \in 0..MaxNodes}

\* The scenario A(Known; x, y -> z) -> B(unregistered; z -> w) -> C(Known; w -> v).
ScenarioABC(convB) ==
    Chain(3, <<"Known", "Unreg", "Known">>, <<"ok", convB, "ok">>, FALSE)

\* Graphs that differ in their wiring.
WiringModels ==
    {   \* an input name nothing produces
        Mdl(<<>>, <<In("x")>>, <<Out("z")>>,
            <<Nd("Known", "A", <<"q">>, <<"z">>, "ok")>>),
        \* an absent optional input
        Mdl(<<>>, <<In("x")>>, <<Out("z")>>,
            <<Nd("Known", "A", <<"x", "">>, <<"z">>, "ok")>>),
        \* a cycle
        Mdl(<<>>, <<In("x")>>, <<Out("z")>>,
            <<Nd("Known", "A", <<"w">>, <<"z">>, "ok"),
              Nd("Known", "B", <<"z">>, <<"w">>, "ok")>>),
        \* a cycle behind an unregistered node
        Mdl(<<>>, <<In("x")>>, <<Out("z")>>,
            <<Nd("Unreg", "A", <<"x">>, <<"v">>, "fail"),
              Nd("Known", "B", <<"w">>, <<"z">>, "ok"),
              Nd("Known", "C", <<"z">>, <<"w">>, "ok")>>),
        \* two nodes that produce the same name
        Mdl(<<>>, <<In("x"), In("y")>>, <<Out("t")>>,
            <<Nd("Known", "A", <<"x">>, <<"t">>, "ok"),
              Nd("Known", "B", <<"y">>, <<"t">>, "ok")>>),
        \* two nodes that produce the same name, which is no declared output
        Mdl(<<>>, <<In("x"), In("y")>>, <<>>,
            <<Nd("Known", "A", <<"x">>, <<"t">>, "ok"),
              Nd("Known", "B", <<"y">>, <<"t">>, "ok")>>),
        \* a node that produces the name of a graph input
        Mdl(<<>>, <<In("x")>>, <<Out("x")>>,
            <<Nd("Known", "A", <<>>, <<"x">>, "ok")>>),
        \* a converter that yields null tensors, and a consumer of them
        Mdl(<<>>, <<In("x")>>, <<Out("w")>>,
            <<Nd("Known", "B", <<"z">>, <<"w">>, "ok"),
              Nd("Known", "A", <<"x">>, <<"z">>, "null")>>),
        \* a consumer of a declared output that nothing produces
        Mdl(<<>>, <<In("x")>>, <<Out("o"), Out("z")>>,
            <<Nd("Known", "A", <<"o">>, <<"z">>, "ok")>>),
        \* an ignored (unnamed) output beside a named one
        Mdl(<<>>, <<In("x")>>, <<Out("z")>>,
            <<Nd("Known", "A", <<"x">>, <<"", "z">>, "ok")>>),
        \* two outputs, the second consumed; nodes stored consumer first
        Mdl(<<Ini("c")>>, <<In("x")>>, <<Out("v")>>,
            <<Nd("Known", "B", <<"w", "c">>, <<"v">>, "ok"),
              Nd("Unreg", "A", <<"x">>, <<"z", "w">>, "ok")>>),
        \* two independent chains, stored interleaved and consumer first
        Mdl(<<>>, <<In("x"), In("y")>>, <<Out("w"), Out("s")>>,
            <<Nd("Known", "B", <<"z">>, <<"w">>, "ok"),
              Nd("Known", "E", <<"u">>, <<"s">>, "ok"),
              Nd("Known", "A", <<"x">>, <<"z">>, "ok"),
              Nd("Known", "D", <<"y">>, <<"u">>, "ok")>>),
        \* three independent chains, stored interleaved and consumer first
        Mdl(<<>>, <<In("x"), In("y")>>, <<Out("w"), Out("s"), Out("p")>>,
            <<Nd("Known", "B", <<"z">>, <<"w">>, "ok"),
              Nd("Known", "E", <<"u">>, <<"s">>, "ok"),
              Nd("Known", "G", <<"r">>, <<"p">>, "ok"),
              Nd("Known", "A", <<"x">>, <<"z">>, "ok"),
              Nd("Known", "D", <<"y">>, <<"u">>, "ok"),
              Nd("Known", "F", <<"x">>, <<"r">>, "ok")>>)
    }

\* Graphs that differ in their declared outputs.
OutputLists ==
    UNION {[1..n -> {[name |-> nm, dt |-> dt] :
                        nm \in {"z", "q", "x"}, dt \in {"ok", "bad"}}] :
           n \in 0..2}

\* Declared outputs of INT32 type, and INT32 tensors declared as float
\* outputs.
TypedOutputLists ==
    {<<[Out("z") EXCEPT !.dt = "i32"]>>,
     <<[Out("z") EXCEPT !.dt = "i32"], Out("z")>>,
     <<Out("z"), [Out("z") EXCEPT !.dt = "i32"]>>,
     <<Out("y")>>,
     <<[Out("y") EXCEPT !.dt = "i32"]>>}

OutputModels ==
    {Mdl(<<>>, <<In("x"), In("y")>>, outs,
         <<Nd("Known", "A", <<"x", "y">>, <<"z">>, "ok")>>) :
     outs \in OutputLists}
    \cup
    {Mdl(<<>>, <<In("x"), [In("y") EXCEPT !.shp = "i32"]>>, outs,
         <<Nd("Known", "A", <<"x">>, <<"z">>, "ok")>>) :
     outs \in TypedOutputLists}

\* Graphs that differ in their initializers and declared inputs.
InputModels ==
    {Mdl(inits, <<[In("x") EXCEPT !.ok = okx, !.rank = rk],
                  [In("y") EXCEPT !.ok = oky]>>,
         <<Out("z")>>,
         <<Nd("Known", "A", <<"x", "c">>, <<"z">>, "ok")>>) :
     inits \in {<<>>, <<Ini("c")>>, <<[Ini("c") EXCEPT !.ok = FALSE]>>,
                <<Ini("x"), Ini("c")>>},
     okx \in {"ok", "dtype"}, oky \in {"ok", "dims"}, rk \in {2, 3}}

\* Models produced by TensorRT itself: their nodes carry directives.
TrtNode(name, inp, out, rmin, rmax) ==
    [Nd("Known", name, inp, out, "ok") EXCEPT !.rmin = rmin, !.rmax = rmax]

RangeModels ==
    {[Mdl(<<>>, <<In("x"), In("y")>>, <<Out("t")>>,
          <<TrtNode("A", <<"x">>, <<"t">>, minA, maxA),
            TrtNode("B", <<"y">>, <<outB>>, minB, maxB)>>)
      EXCEPT !.trt = TRUE] :
     minA \in {<<>>, <<1>>, <<NaN>>}, maxA \in {<<>>, <<5>>},
     minB \in {<<>>, <<1>>, <<2>>, <<NaN>>}, maxB \in {<<>>, <<5>>, <<6>>},
     outB \in {"t", "u"}}

DirectiveModels ==
    {   \* locations and precisions that agree
        [Mdl(<<>>, <<In("x")>>, <<Out("w")>>,
             <<[Nd("Known", "A", <<"x">>, <<"z">>, "ok")
                  EXCEPT !.loc = <<"device">>, !.prec = "kINT8"],
               [Nd("Known", "B", <<"z">>, <<"w">>, "ok")
                  EXCEPT !.loc = <<"host">>, !.prec = "kHALF", !.bad = TRUE]>>)
          EXCEPT !.trt = TRUE],
        \* two layers of one name with different precisions
        [Mdl(<<>>, <<In("x")>>, <<Out("w")>>,
             <<[Nd("Known", "A", <<"x">>, <<"z">>, "ok") EXCEPT !.prec = "kINT8"],
               [Nd("Known", "A", <<"z">>, <<"w">>, "ok") EXCEPT !.prec = "kHALF"]>>)
          EXCEPT !.trt = TRUE],
        \* one tensor with two locations
        [Mdl(<<>>, <<In("x")>>, <<Out("t")>>,
             <<[Nd("Known", "A", <<"x">>, <<"t", "t">>, "ok")
                  EXCEPT !.loc = <<"device", "host">>]>>)
          EXCEPT !.trt = TRUE],
        \* more range values than outputs
        [Mdl(<<>>, <<In("x")>>, <<Out("t")>>,
             <<TrtNode("A", <<"x">>, <<"t">>, <<1, 1>>, <<5>>)>>)
          EXCEPT !.trt = TRUE],
        \* a directive on an output the converter left null
        [Mdl(<<>>, <<In("x")>>, <<>>,
             <<[TrtNode("A", <<"x">>, <<"t">>, <<1>>, <<5>>)
                  EXCEPT !.conv = "null", !.loc = <<"device">>]>>)
          EXCEPT !.trt = TRUE],
        \* the directives of a node whose converter fails are never read
        [Mdl(<<>>, <<In("x")>>, <<Out("t")>>,
             <<[TrtNode("A", <<"x">>, <<"t">>, <<1>>, <<5>>)
                  EXCEPT !.conv = "fail"]>>)
          EXCEPT !.trt = TRUE],
        \* annotations of a built layer beside a precision for a layer that
        \* was never built
        [Mdl(<<>>, <<In("x"), In("y")>>, <<Out("t")>>,
             <<[TrtNode("A", <<"x">>, <<"t">>, <<1>>, <<5>>)
                  EXCEPT !.loc = <<"device">>, !.prec = "kINT8"],
               [Nd("Known", "B", <<"y">>, <<"u">>, "null") EXCEPT !.prec = "kHALF"]>>)
          EXCEPT !.trt = TRUE],
        \* a shape-tensor input of float type, and a Loop fed by one
        Mdl(<<>>, <<[In("x") EXCEPT !.shp = "f32"], [In("y") EXCEPT !.shp = "i32"]>>,
            <<Out("w")>>,
            <<Nd("Known", "A", <<"x">>, <<"z">>, "ok"),
              Nd("Loop", "B", <<"y", "z">>, <<"w">>, "ok")>>),
        \* a layer that illegally yields a shape tensor
        Mdl(<<>>, <<In("x")>>, <<Out("w")>>,
            <<[Nd("Known", "z", <<"x">>, <<"z">>, "ok") EXCEPT !.bad = TRUE],
              Nd("Known", "B", <<"z">>, <<"w">>, "ok")>>)
    }

\* An onnxTensorDescriptorV1: memoryType is "cpu" or "gpu"; ok tells whether
\* convertWeightDescriptor succeeds.
Wd(name, memoryType, ok) == [name |-> name, memoryType |-> memoryType, ok |-> ok]

\* The arguments weight_count and weight_descriptors of a call: null tells
\* whether the pointer is null, array holds the descriptors it points to
\* (at least weight_count of them).
Weights(count, null, array) == [weight_count |-> count, null |-> null, array |-> array]

\* What parse passes (line 475): no descriptor.
NoWeights == Weights(0, TRUE, <<>>)

\* The descriptors parseWithWeightDescriptors is called with.
WeightArgs ==
    {NoWeights,
     Weights(1, TRUE, <<>>),
     Weights(1, FALSE, <<Wd("x", "cpu", TRUE)>>),
     Weights(1, FALSE, <<Wd("x", "gpu", TRUE)>>),
     Weights(1, FALSE, <<Wd("x", "cpu", FALSE)>>),
     Weights(1, FALSE, <<Wd("q", "cpu", TRUE)>>),
     Weights(2, FALSE, <<Wd("x", "cpu", TRUE), Wd("x", "cpu", TRUE)>>),
     Weights(2, FALSE, <<Wd("y", "cpu", TRUE), Wd("x", "cpu", TRUE)>>),
     \* an array longer than weight_count
     Weights(0, FALSE, <<Wd("x", "cpu", TRUE)>>),
     Weights(1, FALSE, <<Wd("x", "cpu", TRUE), Wd("y", "cpu", TRUE)>>),
     Weights(1, FALSE, <<Wd("y", "cpu", TRUE), Wd("y", "cpu", TRUE)>>)}

\* The models parseWithWeightDescriptors is called with.
WeightModels ==
    {   \* one graph input
        Mdl(<<>>, <<In("x")>>, <<Out("z")>>,
            <<Nd("Known", "A", <<"x">>, <<"z">>, "ok")>>),
        \* two graph inputs, of different ranks
        Mdl(<<>>, <<In("x"), [In("y") EXCEPT !.rank = 3]>>, <<Out("z")>>,
            <<Nd("Known", "A", <<"x", "y">>, <<"z">>, "ok")>>),
        \* a graph input that is an initializer as well
        Mdl(<<Ini("x")>>, <<In("x")>>, <<Out("z")>>,
            <<Nd("Known", "A", <<"x">>, <<"z">>, "ok")>>),
        \* a graph input that is a declared output
        Mdl(<<>>, <<In("x")>>, <<Out("x")>>, <<>>)
    }

\* Every model an entry point is called with.
Models ==
    ChainModels \cup WiringModels \cup OutputModels \cup InputModels
        \cup RangeModels \cup DirectiveModels \cup {Garbage}

\* The models stored in the files and buffers of parseFromFile and
\* parseFromData.
FileModels ==
    {Chain(0, <<>>, <<>>, FALSE),
     Chain(1, <<"Known">>, <<"ok">>, FALSE),
     Chain(2, <<"Known", "Known">>, <<"ok", "fail">>, FALSE),
     Mdl(<<>>, <<In("x")>>, <<Out("q")>>, <<>>)}

\* The models of a session of several calls on one importer.
SessionModels ==
    {Garbage, Chain(0, <<>>, <<>>, FALSE), ScenarioABC("fail"),
     Chain(1, <<"Known">>, <<"ok">>, FALSE),
     Chain(2, <<"Known", "Known">>, <<"ok", "fail">>, FALSE),
     \* an initializer
     Mdl(<<Ini("c")>>, <<In("x")>>, <<Out("z")>>,
         <<Nd("Known", "A", <<"x", "c">>, <<"z">>, "ok")>>),
     \* a graph input whose element type does not convert
     Mdl(<<>>, <<[In("x") EXCEPT !.ok = "dtype"]>>, <<Out("z")>>,
         <<Nd("Known", "A", <<"x">>, <<"z">>, "ok")>>),
     \* a declared float output that is a shape tensor
     Mdl(<<>>, <<In("x")>>, <<Out("z")>>,
         <<[Nd("Known", "A", <<"x">>, <<"z">>, "ok") EXCEPT !.bad = TRUE]>>)}

\* --------------------------------------------------- collaborators' contracts

\* ImporterContext::registerTensor: binds the name; a name bound to the same
\* value stays as it is, a reserved (empty) placeholder is replaced by the
\* value naturally produced, and a name bound to another value keeps its
\* binding.
registerTensor(tensors, value, name) ==
    IF name \notin DOMAIN tensors THEN Put(tensors, name, value)
    ELSE IF tensors[name] = value THEN tensors
    ELSE IF tensors[name] = Empty THEN Put(tensors, name, value)
    ELSE tensors

\* Whether registerTensor(tensors, value, name) meets a conflicting binding.
registerConflict(tensors, value, name) ==
    /\ name \in DOMAIN tensors
    /\ tensors[name] # value
    /\ tensors[name] # Empty

\* The nodes (1-based positions) that declare nm among their outputs.
Producers(nodes, nm) ==
    {i \in 1..Len(nodes) : \E k \in 1..Len(nodes[i].output) : nodes[i].output[k] = nm}

\* The nodes that produce a non-empty input of node i.
Deps(nodes, i) ==
    UNION {Producers(nodes, nodes[i].input[k]) :
           k \in {k \in 1..Len(nodes[i].input) : nodes[i].input[k] # ""}}

RECURSIVE TopoFrom(_, _)
TopoFrom(nodes, order) ==
    LET placed == Range(order)
        ready == {i \in (1..Len(nodes)) \ placed : Deps(nodes, i) \subseteq placed}
    IN  IF ready = {} THEN order ELSE TopoFrom(nodes, Append(order, Min(ready)))

\* toposort: a permutation of the node indices in which every node follows
\* the producers of its non-empty inputs; fails when there is none.
toposort(nodes) ==
    LET o == TopoFrom(nodes, <<>>)
    IN  [ok |-> Len(o) = Len(nodes), order |-> [k \in 1..Len(o) |-> o[k] - 1]]

\* ------------------------------------------------------ directive merging

RECURSIVE setTensorLocationsFrom(_, _, _, _)
setTensorLocationsFrom(map, tensors, locations, i) ==
    IF i > Len(locations) THEN [ok |-> TRUE, map |-> map]
    ELSE LET tensor == tensors[i]
             loc == IF locations[i] = "device" THEN "kDEVICE" ELSE "kHOST"
         IN  IF tensor \in DOMAIN map
             THEN IF map[tensor] = loc
                  THEN setTensorLocationsFrom(map, tensors, locations, i + 1)
                  ELSE [ok |-> FALSE, map |-> map]
             ELSE setTensorLocationsFrom(Put(map, tensor, loc), tensors, locations, i + 1)

\* setTensorLocations on the map ctx->tensorLocations().
setTensorLocations(map, tensors, locations) ==
    IF Len(tensors) < Len(locations) THEN [ok |-> FALSE, map |-> map]
    ELSE setTensorLocationsFrom(map, tensors, locations, 1)

\* operator== of float: a NaN equals nothing.
FloatEq(a, b) == a = b /\ a # NaN /\ b # NaN

\* operator== of the mapped type T: float, or nvinfer1::DataType.
DataEq(isFloat, a, b) == IF isFloat THEN FloatEq(a, b) ELSE a = b

RECURSIVE setStringMapFrom(_, _, _, _, _)
setStringMapFrom(map, tensors, data, isFloat, i) ==
    IF i > Len(data) THEN [ok |-> TRUE, map |-> map]
    ELSE LET name == tensors[i]
             dataName == data[i]
         IN  IF name \in DOMAIN map
             THEN IF DataEq(isFloat, map[name], dataName)
                  THEN setStringMapFrom(map, tensors, data, isFloat, i + 1)
                  ELSE [ok |-> FALSE, map |-> map]
             ELSE setStringMapFrom(Put(map, name, dataName), tensors, data, isFloat, i + 1)

\* setStringMap that overwrites a recorded entry instead of comparing it.
setStringMap_Overwrites(map, tensors, data, isFloat) ==
    IF Len(tensors) < Len(data) THEN [ok |-> FALSE, map |-> map]
    ELSE LET given == {tensors[i] : i \in 1..Len(data)}
             last(n) == CHOOSE i \in 1..Len(data) :
                            tensors[i] = n /\ \A j \in (i + 1)..Len(data) : tensors[j] # n
         IN  [ok |-> TRUE,
              map |-> [n \in DOMAIN map \cup given |->
                          IF n \in given THEN data[last(n)] ELSE map[n]]]

\* setStringMap<T> on one of the maps of the context.
setStringMap(map, tensors, data, isFloat) ==
    IF Len(tensors) < Len(data) THEN [ok |-> FALSE, map |-> map]
    ELSE setStringMapFrom(map, tensors, data, isFloat, 1)

\* The directives of a node merged into the maps of the context, in the
\* order of the source; the first mismatch stops the merge and keeps what
\* was written before it.
MergeDirectives(c, node) ==
    LET l == setTensorLocations(c.tensorLocations, node.output, node.loc)
        c1 == [c EXCEPT !.tensorLocations = l.map]
        mn == setStringMap(c1.tensorRangeMins, node.output, node.rmin, TRUE)
        c2 == [c1 EXCEPT !.tensorRangeMins = mn.map]
        mx == setStringMap(c2.tensorRangeMaxes, node.output, node.rmax, TRUE)
        c3 == [c2 EXCEPT !.tensorRangeMaxes = mx.map]
        pr == IF node.prec = "none" THEN [ok |-> TRUE, map |-> c3.layerPrecisions]
              ELSE setStringMap(c3.layerPrecisions, <<node.name>>, <<node.prec>>, FALSE)
        c4 == [c3 EXCEPT !.layerPrecisions = pr.map]
    IN  IF ~l.ok THEN [ok |-> FALSE, ctx |-> c1]
        ELSE IF ~mn.ok THEN [ok |-> FALSE, ctx |-> c2]
        ELSE IF ~mx.ok THEN [ok |-> FALSE, ctx |-> c3]
        ELSE [ok |-> pr.ok, ctx |-> c4]

\* ------------------------------------------------------------------- state

VARIABLES
    pc,                   \* the statement the importer is at ("idle": no call runs)
    caller,               \* the entry point of the running call
    callNo,               \* the number of entry-point calls made so far
    session,              \* whether the importer is used for a session of calls
    model,                \* the ModelProto the running call deserialized
    _onnx_models,         \* ModelImporter::_onnx_models
    _errors,              \* ModelImporter::_errors
    _current_node,        \* ModelImporter::_current_node
    _input_dims,          \* ModelImporter::_input_dims, as ranks (nbDims)
    ctx,                  \* ModelImporter::_importer_ctx and its network
    idx,                  \* the position of the running loop (1-based)
    index_input,          \* importInputs: index_input
    topoOrder,            \* parseGraph: topoOrder; supportsModel: topological_order
    allSupported,         \* supportsModel: allSupported
    error_node,           \* supportsModel: error_node
    input_node,           \* supportsModel: input_node
    newSubGraph,          \* supportsModel: newSubGraph
    sub_graph_collection, \* supportsModel: the caller's sub_graph_collection
    result,               \* what the last call returned: "none", "true", "false"
    onnx_model,           \* parseFromFile, parseFromData: the local onnx_model
    weight_descriptors,   \* the weight_count and weight_descriptors of the running call
    given,                \* the driver: the entry point it called last and its argument
    started,              \* the driver: the lengths of the lists when it called
    run,                  \* the driver: which of its two runs of the program this is
    firstRun,             \* the driver: what it gave to and got from its first run
    __FILE__              \* the build: what __FILE__ expands to in ModelImporter.cpp

vars ==
    <<pc, caller, callNo, session, model, _onnx_models, _errors, _current_node,
      _input_dims, ctx, idx, index_input, topoOrder, allSupported, error_node,
      input_node, newSubGraph, sub_graph_collection, result, onnx_model,
      weight_descriptors, given, started, run, firstRun, __FILE__>>

config == <<session, _input_dims, __FILE__>>
loop == <<idx, index_input, topoOrder>>
analysis == <<error_node, input_node, newSubGraph, sub_graph_collection>>
wrapper == <<onnx_model, weight_descriptors>>
driver == <<given, started, run, firstRun>>

\* __FILE__ of the ASSERT macros in ModelImporter.cpp.
ThisFile == __FILE__

\* No call was made; no run has ended.
NoCall == [entry |-> "none"]
NoRun == [given |-> NoCall]

\* A network definition without elements.
NewNetwork(implicitBatch) ==
    [implicitBatch |-> implicitBatch, inputs |-> <<>>, layers |-> <<>>,
     outputs |-> <<>>, tname |-> NoMap, types |-> NoMap, locations |-> NoMap,
     ranges |-> NoMap, precisions |-> NoMap]

\* An import context as constructed with the importer.
NewContext(implicitBatch) ==
    [tensors |-> NoMap, tensorLocations |-> NoMap, tensorRangeMins |-> NoMap,
     tensorRangeMaxes |-> NoMap, layerPrecisions |-> NoMap, loopTensors |-> NoMap,
     unsupportedShapeTensors |-> {}, network |-> NewNetwork(implicitBatch)]

\* The importers a driver constructs: the dimension overrides it sets up and
\* the kind of network it hands over.
Setups ==
    {[dims |-> <<>>, implicitBatch |-> FALSE],
     [dims |-> <<2>>, implicitBatch |-> FALSE],
     [dims |-> <<>>, implicitBatch |-> TRUE]}

InitWith(s, setup) ==
    /\ pc = "idle"
    /\ caller = "none"
    /\ callNo = 0
    /\ session = s
    /\ model = EmptyModel
    /\ _onnx_models = <<>>
    /\ _errors = <<>>
    /\ _current_node = NoNode
    /\ _input_dims = setup.dims
    /\ ctx = NewContext(setup.implicitBatch)
    /\ idx = 1
    /\ index_input = 0
    /\ topoOrder = <<>>
    /\ allSupported = TRUE
    /\ error_node = NoNode
    /\ input_node = ""
    /\ newSubGraph = TRUE
    /\ sub_graph_collection = <<>>
    /\ result = "none"
    /\ onnx_model = EmptyModel
    /\ weight_descriptors = NoWeights
    /\ given = NoCall
    /\ started = [models |-> 0, errors |-> 0]
    /\ run = 1
    /\ firstRun = NoRun
    /\ __FILE__ \in SourcePaths

Init == \E setup \in Setups : InitWith(FALSE, setup)

InitSession == InitWith(TRUE, [dims |-> <<>>, implicitBatch |-> FALSE])

\* The number of calls the driver makes, and the models it may pass when
\* it can make one.
CallLimit == IF session THEN MaxCalls ELSE 1

Offered ==
    IF pc # "idle" \/ callNo >= CallLimit THEN {}
    ELSE IF session THEN SessionModels ELSE Models

\* The models and descriptors the driver may pass in a call of
\* parseWithWeightDescriptors.
OfferedWeighted ==
    IF pc # "idle" \/ callNo >= CallLimit THEN {}
    ELSE IF session
    THEN {[model |-> Mdl(<<>>, <<In("x")>>, <<Out("z")>>,
                         <<Nd("Known", "A", <<"x">>, <<"z">>, "ok")>>),
           weights |-> w] :
             w \in {Weights(1, TRUE, <<>>), Weights(1, FALSE, <<Wd("x", "cpu", TRUE)>>)}}
    ELSE {[model |-> m, weights |-> w] : m \in WeightModels, w \in WeightArgs}

\* The files the driver may name in a call of parseFromFile: one that does
\* not parse ("unparsable"), one that parses but cannot be opened again
\* ("unreadable"), one that parses but has fewer bytes when it is read again
\* ("shortened"), one in text format and one in binary format.
OfferedFiles ==
    IF pc # "idle" \/ callNo >= CallLimit THEN {}
    ELSE {[kind |-> "unparsable", model |-> EmptyModel]}
             \cup {[kind |-> k, model |-> m] :
                      k \in {"unreadable", "shortened", "text", "binary"},
                      m \in FileModels}

\* The buffers the driver may pass in a call of parseFromData: none
\* (a null pointer, or no byte), or the bytes of a model.
OfferedData ==
    IF pc # "idle" \/ callNo >= CallLimit THEN {}
    ELSE {[kind |-> "null", model |-> EmptyModel]}
             \cup {[kind |-> "bytes", model |-> m] : m \in FileModels \cup {Garbage}}

Bool(b) == IF b THEN "true" ELSE "false"

\* The driver calls entry point e with argument a: in its second run, the
\* call and the argument of its first run.
Gives(e, a) ==
    /\ given' = [entry |-> e, arg |-> a]
    /\ started' = [models |-> Len(_onnx_models), errors |-> Len(_errors)]
    /\ run = 2 => given' = firstRun.given
    /\ UNCHANGED <<run, firstRun>>

\* An IParserError.
Error(node, code, file) == [node |-> node, code |-> code, file |-> file]

\* parseWithWeightDescriptors returns r: to parse, which returns it to
\* supportsModel (line 329), to parseFromFile (line
\* 705) or parseFromData (line 768), which return true at once when r is
\* true (lines 737, 786), or to the driver.
Return(r) ==
    IF caller = "supportsModel"
    THEN pc' = "sm_scan" /\ allSupported' = r /\ result' = result
    ELSE IF caller \in {"parseFromFile", "parseFromData"} /\ ~r
    THEN pc' = "pf_errors" /\ result' = result /\ allSupported' = allSupported
    ELSE pc' = "idle" /\ result' = Bool(r) /\ allSupported' = allSupported

\* ImportFail that records the error without the node it belongs to.
ImportFail_Untagged(code, file, cur) ==
    /\ _errors' = Append(_errors, Error(NoNode, code, file))
    /\ _current_node' = cur
    /\ Return(FALSE)

\* importModel returns an error: parseWithWeightDescriptors tags it with
\* _current_node (cur, as the failing step leaves it), records it and
\* returns false (lines 464-469).
ImportFail(code, file, cur) ==
    /\ _errors' = Append(_errors, Error(cur, code, file))
    /\ _current_node' = cur
    /\ Return(FALSE)

\* ------------------------------------------------------------ entry points

\* The driver calls parse (lines 473-476).
CallParse(m) ==
    /\ pc = "idle"
    /\ callNo < CallLimit
    /\ pc' = "p_enter"
    /\ caller' = "parse"
    /\ callNo' = callNo + 1
    /\ model' = m
    /\ weight_descriptors' = NoWeights
    /\ result' = "none"
    /\ Gives("parse", m)
    /\ UNCHANGED <<config, onnx_model, _onnx_models, _errors, _current_node, ctx, loop,
                   allSupported, analysis>>

\* The driver calls parseWithWeightDescriptors (line 446).
CallParseWithWeightDescriptors(a) ==
    /\ pc = "idle"
    /\ callNo < CallLimit
    /\ pc' = "p_enter"
    /\ caller' = "parseWithWeightDescriptors"
    /\ callNo' = callNo + 1
    /\ model' = a.model
    /\ weight_descriptors' = a.weights
    /\ result' = "none"
    /\ Gives("parseWithWeightDescriptors", a)
    /\ UNCHANGED <<config, onnx_model, _onnx_models, _errors, _current_node, ctx, loop,
                   allSupported, analysis>>

\* The driver calls supportsModel with an empty collection; the model is
\* deserialized into a local ModelProto (lines 311-326).
CallSupportsModel(m) ==
    /\ pc = "idle"
    /\ callNo < CallLimit
    /\ caller' = "supportsModel"
    /\ callNo' = callNo + 1
    /\ model' = m
    /\ sub_graph_collection' = <<>>
    /\ error_node' = NoNode
    /\ input_node' = ""
    /\ newSubGraph' = TRUE
    /\ allSupported' = TRUE
    /\ IF m.ok
       THEN /\ pc' = "p_enter"
            /\ result' = "none"
            /\ UNCHANGED _errors
       ELSE /\ pc' = "idle"
            /\ result' = "false"
            /\ _errors' = Append(_errors, Error(NoNode, kMODEL_DESERIALIZE_FAILED, ThisFile))
    /\ weight_descriptors' = NoWeights
    /\ Gives("supportsModel", m)
    /\ UNCHANGED <<config, onnx_model, _onnx_models, _current_node, ctx, loop>>

\* ParseEnter that stores only a model that deserializes.
ParseEnter_StoresParsed ==
    /\ pc = "p_enter"
    /\ _onnx_models' = IF model.ok THEN Append(_onnx_models, model) ELSE _onnx_models
    /\ IF model.ok
       THEN /\ pc' = "im_begin"
            /\ _current_node' = NoNode
            /\ UNCHANGED <<_errors, allSupported, result>>
       ELSE /\ _errors' = Append(_errors, Error(NoNode, kMODEL_DESERIALIZE_FAILED, ThisFile))
            /\ _current_node' = NoNode
            /\ Return(FALSE)
    /\ UNCHANGED <<caller, callNo, config, wrapper, driver, model, ctx, loop, analysis>>

\* parseWithWeightDescriptors, up to the call of importModel (lines 449-463).
ParseEnter ==
    /\ pc = "p_enter"
    /\ _onnx_models' = Append(_onnx_models, IF model.ok THEN model ELSE EmptyModel)
    /\ IF model.ok
       THEN /\ pc' = "im_begin"
            /\ _current_node' = NoNode
            /\ UNCHANGED <<_errors, allSupported, result>>
       ELSE /\ _errors' = Append(_errors, Error(NoNode, kMODEL_DESERIALIZE_FAILED, ThisFile))
            /\ _current_node' = NoNode
            /\ Return(FALSE)
    /\ UNCHANGED <<caller, callNo, config, wrapper, driver, model, ctx, loop, analysis>>

\* ------------------------------------------------------------- importModel

RECURSIVE ReserveOutputs(_, _, _)
ReserveOutputs(tensors, outs, i) ==
    IF i > Len(outs) THEN tensors
    ELSE ReserveOutputs(registerTensor(tensors, Empty, outs[i].name), outs, i + 1)

\* The descriptors importInputs reads (line 230): the first weights_count
\* of the array.
Described(w) == IF w.null THEN <<>> ELSE SubSeq(w.array, 1, w.weight_count)

\* The names of the weight descriptors (importInputs: weight_map).
WeightNames(w) == {Described(w)[k].name : k \in 1..Len(Described(w))}

\* Whether importInputs accepts the descriptors (lines 227-234): there is
\* an array when there is a count, and no two descriptors have one name.
WeightsAccepted(w) ==
    /\ w.weight_count = 0 \/ ~w.null
    /\ \A i, j \in 1..Len(Described(w)) :
          Described(w)[i].name = Described(w)[j].name => i = j

\* importModel, up to the loop of importInputs over the graph inputs (lines
\* 517-542, 227-243).
ImportModelBegin ==
    /\ pc = "im_begin"
    /\ IF ctx.network.implicitBatch
       THEN /\ ImportFail(kINVALID_VALUE, ThisFile, _current_node)
            /\ UNCHANGED <<ctx, loop>>
       ELSE /\ ctx' = [ctx EXCEPT !.tensors = ReserveOutputs(@, model.output, 1)]
            /\ IF ~WeightsAccepted(weight_descriptors)
               THEN /\ ImportFail(kINVALID_VALUE, ThisFile, NoNode)
                    /\ UNCHANGED loop
               ELSE /\ _current_node' = NoNode
                    /\ pc' = "im_inputs"
                    /\ idx' = 1
                    /\ index_input' = 0
                    /\ UNCHANGED <<topoOrder, _errors, allSupported, result>>
    /\ UNCHANGED <<caller, callNo, config, wrapper, driver, model, _onnx_models, analysis>>

\* The names of the initializers (importInputs, lines 237-241).
InitializerNames(m) == {m.initializer[k].name : k \in 1..Len(m.initializer)}

\* The network with a new input tensor t of the given name and of the
\* declared element type (line 216).
AddInput(net, t, input, rank, setup) ==
    [net EXCEPT !.inputs = Append(@, [t |-> t, shp |-> input.shp, rank |-> rank,
                                      setup |-> setup]),
                !.tname = Put(@, t, input.name),
                !.types = Put(@, t, IF input.shp = "i32" THEN "kINT32" ELSE "kFLOAT")]

\* ImportInputStep that applies an override of any rank.
ImportInputStep_NoRankCheck ==
    /\ pc = "im_inputs"
    /\ idx <= Len(model.input)
    /\ LET input == model.input[idx]
           hasDim == index_input < Len(_input_dims)
           rank == IF hasDim THEN _input_dims[index_input + 1] ELSE input.rank
           t == Value("input", callNo, idx - 1, 0)
           weight_desc == Described(weight_descriptors)[
                              CHOOSE k \in 1..Len(Described(weight_descriptors)) :
                                  Described(weight_descriptors)[k].name = input.name]
           weights == Value("weights", callNo, idx - 1, 1)
       IN  IF input.name \in WeightNames(weight_descriptors)
           THEN IF weight_desc.memoryType # "cpu"
                THEN ImportFail(kINVALID_VALUE, ThisFile, _current_node)
                         /\ UNCHANGED <<ctx, idx, index_input>>
                ELSE IF ~weight_desc.ok
                THEN ImportFail(kUNSUPPORTED_NODE, ThisFile, _current_node)
                         /\ UNCHANGED <<ctx, idx, index_input>>
                ELSE /\ ctx' = [ctx EXCEPT !.tensors = registerTensor(@, weights, input.name)]
                     /\ idx' = idx + 1
                     /\ UNCHANGED <<pc, index_input, _errors, _current_node,
                                    allSupported, result>>
           ELSE IF input.name \in InitializerNames(model)
           THEN /\ idx' = idx + 1
                /\ UNCHANGED <<pc, ctx, index_input, _errors, _current_node,
                               allSupported, result>>
           ELSE IF input.ok = "dtype"
           THEN ImportFail(kUNSUPPORTED_NODE, input.name, _current_node)
                    /\ UNCHANGED <<ctx, idx, index_input>>
           ELSE IF input.ok = "dims"
           THEN ImportFail(kUNSUPPORTED_GRAPH, input.name, _current_node)
                    /\ UNCHANGED <<ctx, idx, index_input>>
           ELSE IF input.ok = "add"
           THEN ImportFail(kUNSUPPORTED_NODE, input.name, _current_node)
                    /\ UNCHANGED <<ctx, idx, index_input>>
           ELSE /\ ctx' = [ctx EXCEPT
                             !.network = AddInput(@, t, input, rank, hasDim),
                             !.tensors = registerTensor(@, t, input.name)]
                /\ idx' = idx + 1
                /\ index_input' = index_input + 1
                /\ UNCHANGED <<pc, _errors, _current_node, allSupported, result>>
    /\ UNCHANGED <<caller, callNo, config, wrapper, driver, model, _onnx_models, topoOrder, analysis>>

\* One round of the loop of importInputs (lines 244-271), importInput
\* (lines 188-219) included: a graph input that has a weight descriptor is
\* bound to the converted weights, an initializer is passed over, any other
\* becomes an input of the network.  No tensor is user-supplied (lines
\* 195-203).
ImportInputStep ==
    /\ pc = "im_inputs"
    /\ idx <= Len(model.input)
    /\ LET input == model.input[idx]
           hasDim == index_input < Len(_input_dims)
           rank == IF hasDim THEN _input_dims[index_input + 1] ELSE input.rank
           t == Value("input", callNo, idx - 1, 0)
           weight_desc == Described(weight_descriptors)[
                              CHOOSE k \in 1..Len(Described(weight_descriptors)) :
                                  Described(weight_descriptors)[k].name = input.name]
           weights == Value("weights", callNo, idx - 1, 1)
       IN  IF input.name \in WeightNames(weight_descriptors)
           THEN IF weight_desc.memoryType # "cpu"
                THEN ImportFail(kINVALID_VALUE, ThisFile, _current_node)
                         /\ UNCHANGED <<ctx, idx, index_input>>
                ELSE IF ~weight_desc.ok
                THEN ImportFail(kUNSUPPORTED_NODE, ThisFile, _current_node)
                         /\ UNCHANGED <<ctx, idx, index_input>>
                ELSE /\ ctx' = [ctx EXCEPT !.tensors = registerTensor(@, weights, input.name)]
                     /\ idx' = idx + 1
                     /\ UNCHANGED <<pc, index_input, _errors, _current_node,
                                    allSupported, result>>
           ELSE IF input.name \in InitializerNames(model)
           THEN /\ idx' = idx + 1
                /\ UNCHANGED <<pc, ctx, index_input, _errors, _current_node,
                               allSupported, result>>
           ELSE IF input.ok = "dtype"
           THEN ImportFail(kUNSUPPORTED_NODE, input.name, _current_node)
                    /\ UNCHANGED <<ctx, idx, index_input>>
           ELSE IF input.ok = "dims"
           THEN ImportFail(kUNSUPPORTED_GRAPH, input.name, _current_node)
                    /\ UNCHANGED <<ctx, idx, index_input>>
           ELSE IF hasDim /\ input.rank # _input_dims[index_input + 1]
           THEN ImportFail(kINVALID_VALUE, input.name, _current_node)
                    /\ UNCHANGED <<ctx, idx, index_input>>
           ELSE IF input.ok = "add"
           THEN ImportFail(kUNSUPPORTED_NODE, input.name, _current_node)
                    /\ UNCHANGED <<ctx, idx, index_input>>
           ELSE /\ ctx' = [ctx EXCEPT
                             !.network = AddInput(@, t, input, rank, hasDim),
                             !.tensors = registerTensor(@, t, input.name)]
                /\ idx' = idx + 1
                /\ index_input' = index_input + 1
                /\ UNCHANGED <<pc, _errors, _current_node, allSupported, result>>
    /\ UNCHANGED <<caller, callNo, config, wrapper, driver, model, _onnx_models, topoOrder, analysis>>

\* importInputs returns success; importModel calls parseGraph (lines 273, 544).
ImportInputsDone ==
    /\ pc = "im_inputs"
    /\ idx > Len(model.input)
    /\ pc' = "pg_init"
    /\ idx' = 1
    /\ UNCHANGED <<caller, callNo, config, wrapper, driver, model, _onnx_models, _errors,
                   _current_node, ctx, index_input, topoOrder, allSupported,
                   analysis, result>>

\* --------------------------------------------------------------- parseGraph

\* One round of the loop over the initializers (lines 88-94).
ImportInitializerStep ==
    /\ pc = "pg_init"
    /\ idx <= Len(model.initializer)
    /\ LET initializer == model.initializer[idx]
           weights == Value("weights", callNo, idx - 1, 0)
       IN  IF ~initializer.ok
           THEN ImportFail(kUNSUPPORTED_NODE, ThisFile, _current_node)
                    /\ UNCHANGED <<ctx, idx>>
           ELSE /\ ctx' = [ctx EXCEPT !.tensors = registerTensor(@, weights, initializer.name)]
                /\ idx' = idx + 1
                /\ UNCHANGED <<pc, _errors, _current_node, allSupported, result>>
    /\ UNCHANGED <<caller, callNo, config, wrapper, driver, model, _onnx_models, index_input,
                   topoOrder, analysis>>

\* The nodes are sorted (lines 96-99).
SortNodes ==
    /\ pc = "pg_init"
    /\ idx > Len(model.initializer)
    /\ LET sorted == toposort(model.node)
       IN  IF ~sorted.ok
           THEN ImportFail(kINVALID_GRAPH, ThisFile, _current_node)
                    /\ UNCHANGED <<idx, topoOrder>>
           ELSE /\ topoOrder' = sorted.order
                /\ pc' = "pg_node"
                /\ idx' = 1
                /\ UNCHANGED <<_errors, _current_node, allSupported, result>>
    /\ UNCHANGED <<caller, callNo, config, wrapper, driver, model, _onnx_models, ctx, index_input,
                   analysis>>

\* Whether some non-empty input name of the node is not in the registry
\* (the ASSERT of line 124).
Unresolved(tensors, node) ==
    \E k \in 1..Len(node.input) :
        node.input[k] # "" /\ node.input[k] \notin DOMAIN tensors

\* NodeInputs that leaves out the inputs that are not supplied.
NodeInputs_SkipsAbsent(tensors, node) ==
    LET named == SelectSeq(node.input, LAMBDA nm : nm # "")
    IN  [k \in 1..Len(named) |-> tensors[named[k]]]

\* The inputs assembled for the converter (lines 110-128).
NodeInputs(tensors, node) ==
    [k \in 1..Len(node.input) |->
        IF node.input[k] = "" THEN Empty ELSE tensors[node.input[k]]]

\* What the converter of the node returns on success.
ConverterOutputs(node, call, nodeIndex) ==
    [k \in 1..Len(node.output) |->
        IF node.conv = "null" THEN Empty ELSE Value("node", call, nodeIndex, k)]

\* The converter the node is dispatched to (lines 132-141).
Dispatch(op) == IF op \in RegisteredOps THEN op ELSE FallbackKey

\* The network after a successful converter added the layer of the node;
\* the tensors it yields are of float type.
AddLayer(net, node, nodeInputs, outputs) ==
    IF node.conv = "null" THEN net
    ELSE [net EXCEPT !.layers = Append(@, [name |-> node.name,
                                           via |-> Dispatch(node.op),
                                           args |-> nodeInputs,
                                           outs |-> outputs,
                                           bad |-> node.bad]),
                     !.tname = [t \in DOMAIN @ \cup Range(outputs) |->
                                    IF t \in Range(outputs) THEN "" ELSE @[t]],
                     !.types = [t \in DOMAIN @ \cup Range(outputs) |->
                                    IF t \in Range(outputs) THEN "kFLOAT" ELSE @[t]]]

\* RegisterOutputs that registers no output.
RegisterOutputs_Nothing(c, node, outputs, i) == c

\* The outputs of a node registered with the context (lines 171-182); the
\* registry names the tensor it binds.
RECURSIVE RegisterOutputs(_, _, _, _)
RegisterOutputs(c, node, outputs, i) ==
    IF i > Len(node.output) THEN c
    ELSE LET outputName == node.output[i]
             output == outputs[i]
         IN  IF IsSet(output) /\ outputName # ""
             THEN RegisterOutputs(
                      [c EXCEPT !.tensors = registerTensor(@, output, outputName),
                                !.network.tname = Put(@, output, outputName)],
                      node, outputs, i + 1)
             ELSE RegisterOutputs(c, node, outputs, i + 1)

\* importNode that registers the outputs before it merges the directives.
importNode_CommitsFirst(c, m, call, nodeIndex) ==
    LET node == m.node[nodeIndex + 1]
        nodeInputs == NodeInputs(c.tensors, node)
        outputs == ConverterOutputs(node, call, nodeIndex)
        built == [c EXCEPT !.network = AddLayer(@, node, nodeInputs, outputs)]
        committed == RegisterOutputs(built, node, outputs, 1)
        merged == IF m.trt THEN MergeDirectives(committed, node)
                  ELSE [ok |-> TRUE, ctx |-> committed]
    IN  IF Unresolved(c.tensors, node)
        THEN [code |-> kINVALID_GRAPH, file |-> ThisFile, ctx |-> c]
        ELSE IF node.conv = "fail"
        THEN [code |-> kUNSUPPORTED_NODE, file |-> ConverterFile, ctx |-> c]
        ELSE IF ~merged.ok
        THEN [code |-> kINVALID_GRAPH, file |-> ThisFile, ctx |-> merged.ctx]
        ELSE [code |-> kSUCCESS, file |-> "", ctx |-> merged.ctx]

\* The body of the loop over the sorted nodes, for the node at nodeIndex
\* (lines 106-183): the status it ends with and the context it leaves.  A
\* failure returns before the outputs are registered.
importNode(c, m, call, nodeIndex) ==
    LET node == m.node[nodeIndex + 1]
        nodeInputs == NodeInputs(c.tensors, node)
        outputs == ConverterOutputs(node, call, nodeIndex)
        built == [c EXCEPT !.network = AddLayer(@, node, nodeInputs, outputs)]
        merged == IF m.trt THEN MergeDirectives(built, node)
                  ELSE [ok |-> TRUE, ctx |-> built]
    IN  IF Unresolved(c.tensors, node)
        THEN [code |-> kINVALID_GRAPH, file |-> ThisFile, ctx |-> c]
        ELSE IF node.conv = "fail"
        THEN [code |-> kUNSUPPORTED_NODE, file |-> ConverterFile, ctx |-> c]
        ELSE IF ~merged.ok
        THEN [code |-> kINVALID_GRAPH, file |-> ThisFile, ctx |-> merged.ctx]
        ELSE [code |-> kSUCCESS, file |-> "",
              ctx |-> RegisterOutputs(merged.ctx, node, outputs, 1)]

\* One round of the loop over the sorted nodes (lines 100-184).
VisitNode ==
    /\ pc = "pg_node"
    /\ idx <= Len(topoOrder)
    /\ LET nodeIndex == topoOrder[idx]
           status == importNode(ctx, model, callNo, nodeIndex)
       IN  /\ ctx' = status.ctx
           /\ IF status.code # kSUCCESS
              THEN ImportFail(status.code, status.file, nodeIndex) /\ UNCHANGED idx
              ELSE /\ _current_node' = nodeIndex
                   /\ idx' = idx + 1
                   /\ UNCHANGED <<pc, _errors, allSupported, result>>
    /\ UNCHANGED <<caller, callNo, config, wrapper, driver, model, _onnx_models, index_input,
                   topoOrder, analysis>>

\* ParseGraphDone that does not wait for the last node.
ParseGraphDone_Early ==
    /\ pc = "pg_node"
    /\ pc' = "im_outputs"
    /\ idx' = 1
    /\ _current_node' = NoNode
    /\ UNCHANGED <<caller, callNo, config, wrapper, driver, model, _onnx_models, _errors, ctx,
                   index_input, topoOrder, allSupported, analysis, result>>

\* parseGraph returns success; importModel resets _current_node (lines 185, 546).
ParseGraphDone ==
    /\ pc = "pg_node"
    /\ idx > Len(topoOrder)
    /\ pc' = "im_outputs"
    /\ idx' = 1
    /\ _current_node' = NoNode
    /\ UNCHANGED <<caller, callNo, config, wrapper, driver, model, _onnx_models, _errors, ctx,
                   index_input, topoOrder, allSupported, analysis, result>>

\* ------------------------------------------------- importModel, continued

\* The process ends abnormally: the call returns nothing.  how is "ub_output"
\* (a null output tensor was used), "ub_back" (back() of an empty
\* collection was used) or "thrown" (an exception left the entry point).
Abort(how) ==
    /\ pc' = how
    /\ UNCHANGED <<_errors, _current_node, ctx, idx, allSupported, result>>

\* The network with tensor t, under the declared name, marked as an output.
MarkOutput(net, t, name) ==
    [net EXCEPT !.outputs = Append(@, t), !.tname = Put(@, t, name)]

\* The network after the declared output was resolved to a tensor of its
\* name (lines 552-565): a weight becomes the output of a constant layer, a
\* network input is renamed and copied by an identity layer.
ResolveOutput(net, v, name, t) ==
    IF v.k = "weights"
    THEN [net EXCEPT !.layers = Append(@, [name |-> "(constant)", via |-> "",
                                           args |-> <<>>, outs |-> <<t>>,
                                           bad |-> FALSE]),
                     !.types = Put(@, t, "kFLOAT")]
    ELSE IF v.k = "input"
    THEN [net EXCEPT !.layers = Append(@, [name |-> "(identity)", via |-> "",
                                           args |-> <<v>>, outs |-> <<t>>,
                                           bad |-> FALSE]),
                     !.tname = Put(@, v, "__" \o name),
                     !.types = Put(@, t, @[v])]
    ELSE net

\* OutputTensor that marks a network input itself.
OutputTensor_NoCopy(v, call, i) ==
    IF v.k = "weights" THEN Value("const", call, i, 0) ELSE v

\* The tensor a bound value is converted to for a declared output.
OutputTensor(v, call, i) ==
    IF v.k = "weights" THEN Value("const", call, i, 0)
    ELSE IF v.k = "input" THEN Value("identity", call, i, 0)
    ELSE v

\* The element type a declared output converts to (line 573).
DeclaredType(output) == IF output.dt = "i32" THEN "kINT32" ELSE "kFLOAT"

\* Whether the type of tensor t is INT32 (line 575).  The type read through
\* a null tensor is undefined: it is INT32 or it is not.
IsInt32(net, t) ==
    IF t = Empty THEN {TRUE, FALSE} ELSE {net.types[t] = "kINT32"}

\* The network with the type of tensor t set (line 579; a write through a
\* null tensor that goes on changes no tensor of the network).
SetType(net, t, type) ==
    IF t = Empty THEN net ELSE [net EXCEPT !.types = Put(@, t, type)]

\* One round of the loop over the declared outputs (lines 548-581).  No
\* tensor is user-requested.  A name still bound to the empty placeholder
\* yields a null tensor, whose use is undefined: the process crashes, or
\* goes on with whatever it finds.  The tensor is marked before the type
\* of the declared output is converted and compared with the type the
\* tensor has (an INT32 tensor must be declared INT32); then the tensor
\* takes the declared type.
FinalizeOutput ==
    /\ pc = "im_outputs"
    /\ idx <= Len(model.output)
    /\ LET output == model.output[idx]
           v == ctx.tensors[output.name]
           t == OutputTensor(v, callNo, idx - 1)
           marked == [ctx EXCEPT !.network =
                         MarkOutput(ResolveOutput(@, v, output.name, t), t, output.name)]
       IN  IF output.name \notin DOMAIN ctx.tensors
           THEN ImportFail(kINVALID_GRAPH, ThisFile, _current_node)
                    /\ UNCHANGED <<ctx, idx>>
           ELSE \/ /\ v = Empty
                   /\ Abort("ub_output")
                \/ /\ \/ output.dt = "bad"
                      \/ TRUE \in IsInt32(marked.network, t) /\ output.dt # "i32"
                   /\ ImportFail(kUNSUPPORTED_NODE, ThisFile, _current_node)
                   /\ ctx' = marked
                   /\ UNCHANGED idx
                \/ /\ output.dt # "bad"
                   /\ FALSE \in IsInt32(marked.network, t) \/ output.dt = "i32"
                   /\ ctx' = [marked EXCEPT !.network =
                                 SetType(@, t, DeclaredType(output))]
                   /\ idx' = idx + 1
                   /\ UNCHANGED <<pc, _errors, _current_node, allSupported, result>>
    /\ UNCHANGED <<caller, callNo, config, wrapper, driver, model, _onnx_models, index_input,
                   topoOrder, analysis>>

\* Every declared output is marked (line 581); no output is user-requested
\* (lines 583-591).
OutputsDone ==
    /\ pc = "im_outputs"
    /\ idx > Len(model.output)
    /\ pc' = "im_annot"
    /\ UNCHANGED <<caller, callNo, config, wrapper, driver, model, _onnx_models, _errors,
                   _current_node, ctx, loop, allSupported, analysis, result>>

\* The tensors of a layer or of the network that are ITensors.
IsTensor(v) == v.k \notin {"empty", "weights"}

\* The names under which the tensors of the network are found (lines 596-634).
TensorNames(net) ==
    LET ts == {net.inputs[k].t : k \in 1..Len(net.inputs)}
                \cup Range(net.outputs)
                \cup UNION {{v \in Range(net.layers[k].args) : IsTensor(v)}
                                \cup {v \in Range(net.layers[k].outs) : IsTensor(v)} :
                            k \in 1..Len(net.layers)}
    IN  {net.tname[t] : t \in {t \in ts : t \in DOMAIN net.tname}}

LayerNames(net) == {net.layers[k].name : k \in 1..Len(net.layers)}

\* The recorded ranges whose minimum is a number (line 647).
NumberedMins(c) == {n \in DOMAIN c.tensorRangeMins : c.tensorRangeMins[n] # NaN}

\* The network with the recorded location of every name of S set on the
\* tensor of that name (lines 637-641).
SetLocations(net, c, S) ==
    [net EXCEPT !.locations = [n \in DOMAIN @ \cup S |->
                                  IF n \in S THEN c.tensorLocations[n] ELSE @[n]]]

\* The network with the recorded range of every name of S set on the tensor
\* of that name (lines 643-651).
SetRanges(net, c, S) ==
    [net EXCEPT !.ranges = [n \in DOMAIN @ \cup S |->
                               IF n \in S
                               THEN <<c.tensorRangeMins[n], c.tensorRangeMaxes[n]>>
                               ELSE @[n]]]

\* The network with the recorded precision of every name of S set on the
\* layer of that name (lines 653-657).
SetPrecisions(net, c, S) ==
    [net EXCEPT !.precisions = [n \in DOMAIN @ \cup S |->
                                   IF n \in S THEN c.layerPrecisions[n] ELSE @[n]]]

\* The network with every recorded annotation set on its element (lines 637-657).
Annotated(net, c) ==
    SetPrecisions(SetRanges(SetLocations(net, c, DOMAIN c.tensorLocations),
                            c, NumberedMins(c)),
                  c, DOMAIN c.layerPrecisions)

\* The maps of the annotations are unordered: the build fixes the order in
\* which a loop meets their entries, so the second run of the program meets
\* them in the order of the first and stops where the first stopped.
SameIterationOrder(net, threw) ==
    (run = 2 /\ firstRun.outcome.pc # "ub_output") =>
        /\ net.locations = firstRun.outcome.network.locations
        /\ net.ranges = firstRun.outcome.network.ranges
        /\ net.precisions = firstRun.outcome.network.precisions
        /\ threw <=> firstRun.outcome.pc = "thrown"

\* The loop over a map of annotations stops at an entry it cannot apply:
\* the entries met before it (any of those that can be applied, as the map
\* is unordered) stay applied on the network, and importModel returns the
\* error, or the exception of at() leaves the entry point.
AnnotationsStop(net, threw) ==
    /\ SameIterationOrder(net, threw)
    /\ ctx' = [ctx EXCEPT !.network = net]
    /\ IF threw
       THEN /\ pc' = "thrown"
            /\ UNCHANGED <<_errors, _current_node, allSupported, result>>
       ELSE ImportFail(kINVALID_GRAPH, ThisFile, _current_node)

\* The annotations are applied to the built network (lines 593-658), one
\* entry after the other: the locations, then the ranges, then the
\* precisions.  A name without an element fails the import; a numbered
\* minimum without a maximum makes tensorRangeMaxes().at() throw.
ApplyAnnotations ==
    /\ pc = "im_annot"
    /\ LET net == ctx.network
           names == TensorNames(net)
           unknownLocs == DOMAIN ctx.tensorLocations \ names
           unknownMins == DOMAIN ctx.tensorRangeMins \ names
           loneMins == (NumberedMins(ctx) \cap names) \ DOMAIN ctx.tensorRangeMaxes
           pairedMins == (NumberedMins(ctx) \cap names) \cap DOMAIN ctx.tensorRangeMaxes
           unknownPrecs == DOMAIN ctx.layerPrecisions \ LayerNames(net)
           located == SetLocations(net, ctx, DOMAIN ctx.tensorLocations)
           ranged == SetRanges(located, ctx, NumberedMins(ctx))
       IN  IF ~model.trt
           THEN /\ pc' = "im_post"
                /\ UNCHANGED <<_errors, _current_node, ctx, allSupported, result>>
           ELSE IF unknownLocs # {}
           THEN \E S \in SUBSET (DOMAIN ctx.tensorLocations \ unknownLocs) :
                    AnnotationsStop(SetLocations(net, ctx, S), FALSE)
           ELSE IF unknownMins \cup loneMins # {}
           THEN \E stop \in unknownMins \cup loneMins :
                    \E S \in SUBSET pairedMins :
                        AnnotationsStop(SetRanges(located, ctx, S), stop \in loneMins)
           ELSE IF unknownPrecs # {}
           THEN \E S \in SUBSET (DOMAIN ctx.layerPrecisions \ unknownPrecs) :
                    AnnotationsStop(SetPrecisions(ranged, ctx, S), FALSE)
           ELSE /\ ctx' = [ctx EXCEPT !.network = Annotated(@, ctx)]
                /\ pc' = "im_post"
                /\ UNCHANGED <<_errors, _current_node, allSupported, result>>
    /\ UNCHANGED <<caller, callNo, config, wrapper, driver, model, _onnx_models, loop, analysis>>

\* The layers removeShapeTensorCasts treats (line 484): those whose first
\* output is a shape tensor.  In the graphs modelled here these are the
\* layers of the nodes flagged as yielding a shape tensor they do not
\* support.
ShapeTensorLayers(net) ==
    {k \in 1..Len(net.layers) : net.layers[k].bad /\ Len(net.layers[k].outs) > 0}

\* The names removeShapeTensorCasts records (lines 498-509): the first
\* output of every layer that yields a shape tensor it does not support.
IllegalShapeOutputs(net) ==
    {net.tname[net.layers[k].outs[1]] : k \in ShapeTensorLayers(net)}

\* The network after removeShapeTensorCasts reset the precision of every
\* layer that yields a shape tensor and set it, and the type of the first
\* output of the layer, to that of a shape tensor (lines 486-497; no tensor
\* modelled here is boolean).
WithoutShapeTensorCasts(net) ==
    LET reset == {net.layers[k].name : k \in ShapeTensorLayers(net)}
        typed == {net.layers[k].outs[1] : k \in ShapeTensorLayers(net)}
    IN  [net EXCEPT !.precisions = [n \in DOMAIN @ \cup reset |->
                                       IF n \in reset THEN "kINT32" ELSE @[n]],
                    !.types = [t \in DOMAIN @ \cup typed |->
                                  IF t \in typed THEN "kINT32" ELSE @[t]]]

\* removeShapeTensorCasts runs and importModel returns success; parse
\* returns true (lines 660-661, 470).
PostProcess ==
    /\ pc = "im_post"
    /\ ctx' = [ctx EXCEPT
                 !.unsupportedShapeTensors = @ \cup IllegalShapeOutputs(ctx.network),
                 !.network = WithoutShapeTensorCasts(@)]
    /\ Return(TRUE)
    /\ UNCHANGED <<caller, callNo, config, wrapper, driver, model, _onnx_models, _errors,
                   _current_node, loop, analysis>>

\* ------------------------------------------------------------ supportsModel

\* The node index of the last recorded error that has one (lines 336-344).
RECURSIVE LastErrorNode(_, _, _)
LastErrorNode(errors, i, acc) ==
    IF i > Len(errors) THEN acc
    ELSE LastErrorNode(errors, i + 1,
                       IF errors[i].node # NoNode THEN errors[i].node ELSE acc)

\* The file of the last recorded error that has no node (lines 345-352).
RECURSIVE LastErrorInput(_, _, _)
LastErrorInput(errors, i, acc) ==
    IF i > Len(errors) THEN acc
    ELSE LastErrorInput(errors, i + 1,
                        IF errors[i].node = NoNode THEN errors[i].file ELSE acc)

\* AnalysisBegin that returns false as soon as the trial import failed.
AnalysisBegin_FailFast ==
    /\ pc = "sm_scan"
    /\ LET sorted == toposort(model.node)
       IN  /\ error_node' = IF allSupported THEN NoNode
                            ELSE LastErrorNode(_errors, 1, NoNode)
           /\ input_node' = IF allSupported THEN ""
                            ELSE LastErrorInput(_errors, 1, "")
           /\ newSubGraph' = TRUE
           /\ IF sorted.ok /\ allSupported
              THEN /\ pc' = "sm_walk"
                   /\ topoOrder' = sorted.order
                   /\ idx' = 1
                   /\ UNCHANGED result
              ELSE /\ pc' = "idle"
                   /\ result' = "false"
                   /\ UNCHANGED <<topoOrder, idx>>
    /\ UNCHANGED <<caller, callNo, config, wrapper, driver, model, _onnx_models, _errors,
                   _current_node, ctx, index_input, allSupported,
                   sub_graph_collection>>

\* After the trial import returned: the recorded errors are scanned and the
\* nodes are sorted (lines 331-396).
AnalysisBegin ==
    /\ pc = "sm_scan"
    /\ LET sorted == toposort(model.node)
       IN  /\ error_node' = IF allSupported THEN NoNode
                            ELSE LastErrorNode(_errors, 1, NoNode)
           /\ input_node' = IF allSupported THEN ""
                            ELSE LastErrorInput(_errors, 1, "")
           /\ newSubGraph' = TRUE
           /\ IF sorted.ok
              THEN /\ pc' = "sm_walk"
                   /\ topoOrder' = sorted.order
                   /\ idx' = 1
                   /\ UNCHANGED result
              ELSE /\ pc' = "idle"
                   /\ result' = "false"
                   /\ UNCHANGED <<topoOrder, idx>>
    /\ UNCHANGED <<caller, callNo, config, wrapper, driver, model, _onnx_models, _errors,
                   _current_node, ctx, index_input, allSupported,
                   sub_graph_collection>>

\* The recorded lineage of a name; operator[] yields "" for a new key.
Lineage(loopTensors, name) ==
    IF name \in DOMAIN loopTensors THEN loopTensors[name] ELSE ""

\* checkForInput (lines 356-365).
checkForInput(loopTensors, failing, node) ==
    \E k \in 1..Len(node.input) :
        failing = node.input[k] \/ Lineage(loopTensors, failing) = node.input[k]

\* The lineage map after checkForInput ran: operator[] adds the key it is
\* asked for as soon as one input differs from the failing name.
LineageAfterCheck(loopTensors, failing, node) ==
    IF Len(node.input) > 0 /\ node.input[1] # failing /\ failing \notin DOMAIN loopTensors
    THEN Put(loopTensors, failing, "")
    ELSE loopTensors

\* checkShapeTensorType (lines 367-387).
checkShapeTensorType(net, node) ==
    \E i \in 1..Len(net.inputs) :
        /\ net.inputs[i].shp # "no"
        /\ net.inputs[i].shp = "f32" \/ node.op = "Loop" \/ node.op = "Scan"
        /\ \E k \in 1..Len(node.input) : node.input[k] = net.tname[net.inputs[i].t]

\* supportsOperator that counts the fallback converter as a match.
supportsOperator_WithFallback(op) == Dispatch(op) \in RegisteredOps

\* supportsOperator (lines 441-444).
supportsOperator(op) == op \in RegisteredOps

\* Supported without the look-up in the operator registry.
Supported_IgnoresRegistry(c, failingNode, failingInput, node, node_idx) ==
    LET unsupportedInput == IF failingInput = "" THEN FALSE
                            ELSE checkForInput(c.loopTensors, failingInput, node)
    IN  ~unsupportedInput /\ ~checkShapeTensorType(c.network, node)
            /\ node.name \notin c.unsupportedShapeTensors
            /\ node_idx # failingNode

\* Whether supportsModel adds the node to a subgraph (lines 407-412).
Supported(c, failingNode, failingInput, node, node_idx) ==
    LET registered == supportsOperator(node.op)
        unsupportedInput == IF failingInput = "" THEN FALSE
                            ELSE checkForInput(c.loopTensors, failingInput, node)
        unsupportedShapeType == checkShapeTensorType(c.network, node)
        unsupportedShapeTensor == node.name \in c.unsupportedShapeTensors
        unsuccessfulParse == node_idx = failingNode
    IN  registered /\ ~unsupportedInput /\ ~unsupportedShapeType
            /\ ~unsupportedShapeTensor /\ ~unsuccessfulParse

\* AddToSubGraph that puts the node in front of the last subgraph.
AddToSubGraph_Prepends(collection, fresh, node_idx) ==
    LET open == IF fresh THEN Append(collection, [first |-> <<>>, second |-> FALSE])
                ELSE collection
    IN  [open EXCEPT ![Len(open)].first = <<node_idx>> \o @]

\* The collection with node_idx added to its last subgraph, a new one when
\* a subgraph begins (lines 414-423).
AddToSubGraph(collection, fresh, node_idx) ==
    LET open == IF fresh THEN Append(collection, [first |-> <<>>, second |-> FALSE])
                ELSE collection
    IN  [open EXCEPT ![Len(open)].first = Append(@, node_idx)]

\* AnalyzeNode that leaves the subgraph open at an excluded node.
AnalyzeNode_KeepsOpen ==
    /\ pc = "sm_walk"
    /\ idx <= Len(topoOrder)
    /\ LET node_idx == topoOrder[idx]
           node == model.node[node_idx + 1]
       IN  /\ ctx' = IF input_node = "" THEN ctx
                     ELSE [ctx EXCEPT !.loopTensors =
                              LineageAfterCheck(@, input_node, node)]
           /\ IF Supported(ctx, error_node, input_node, node, node_idx)
              THEN /\ sub_graph_collection' =
                          AddToSubGraph(sub_graph_collection, newSubGraph, node_idx)
                   /\ newSubGraph' = FALSE
                   /\ UNCHANGED allSupported
              ELSE /\ allSupported' = FALSE
                   /\ UNCHANGED <<newSubGraph, sub_graph_collection>>
    /\ idx' = idx + 1
    /\ UNCHANGED <<pc, caller, callNo, config, wrapper, driver, model, _onnx_models, _errors,
                   _current_node, index_input, topoOrder, error_node, input_node,
                   result>>

\* One round of the loop over the sorted nodes (lines 398-431).
AnalyzeNode ==
    /\ pc = "sm_walk"
    /\ idx <= Len(topoOrder)
    /\ LET node_idx == topoOrder[idx]
           node == model.node[node_idx + 1]
       IN  /\ ctx' = IF input_node = "" THEN ctx
                     ELSE [ctx EXCEPT !.loopTensors =
                              LineageAfterCheck(@, input_node, node)]
           /\ IF Supported(ctx, error_node, input_node, node, node_idx)
              THEN /\ sub_graph_collection' =
                          AddToSubGraph(sub_graph_collection, newSubGraph, node_idx)
                   /\ newSubGraph' = FALSE
                   /\ UNCHANGED allSupported
              ELSE /\ newSubGraph' = TRUE
                   /\ allSupported' = FALSE
                   /\ UNCHANGED sub_graph_collection
    /\ idx' = idx + 1
    /\ UNCHANGED <<pc, caller, callNo, config, wrapper, driver, model, _onnx_models, _errors,
                   _current_node, index_input, topoOrder, error_node, input_node,
                   result>>

\* The only subgraph is marked supported and supportsModel returns (lines
\* 433-438).  back() of an empty collection is undefined: the process
\* crashes, or writes nowhere the collection shows.
AnalysisDone ==
    /\ pc = "sm_walk"
    /\ idx > Len(topoOrder)
    /\ \/ /\ allSupported /\ sub_graph_collection = <<>>
          /\ pc' = "ub_back"
          /\ UNCHANGED <<sub_graph_collection, result>>
       \/ /\ pc' = "idle"
          /\ result' = Bool(allSupported)
          /\ sub_graph_collection' =
                IF allSupported /\ sub_graph_collection # <<>>
                THEN [sub_graph_collection EXCEPT ![Len(sub_graph_collection)].second = TRUE]
                ELSE sub_graph_collection
    /\ UNCHANGED <<caller, callNo, config, wrapper, driver, model, _onnx_models, _errors,
                   _current_node, ctx, loop, allSupported, error_node, input_node,
                   newSubGraph>>

\* ------------------------------------------- parseFromFile, parseFromData

\* The driver calls parseFromFile (lines 664-705).  A file that parses
\* neither as binary nor as text makes it return EXIT_FAILURE, which is 1
\* and converts to true.  A file that cannot be opened again has tellg()
\* yield -1, and the buffer of that size makes std::vector throw
\* std::length_error out of the entry point (line 698).  A file of which
\* read() does not get file_size bytes makes it return false (lines
\* 699-703).  Otherwise the bytes of the file are handed to parse, which
\* reads them as binary.
CallParseFromFile(f) ==
    /\ pc = "idle"
    /\ callNo < CallLimit
    /\ caller' = "parseFromFile"
    /\ callNo' = callNo + 1
    /\ IF f.kind = "unparsable"
       THEN /\ pc' = "idle" /\ result' = "true"
            /\ model' = Garbage /\ onnx_model' = EmptyModel
       ELSE IF f.kind = "unreadable"
       THEN /\ pc' = "thrown" /\ result' = "none"
            /\ model' = Garbage /\ onnx_model' = f.model
       ELSE IF f.kind = "shortened"
       THEN /\ pc' = "idle" /\ result' = "false"
            /\ model' = Garbage /\ onnx_model' = f.model
       ELSE /\ pc' = "p_enter" /\ result' = "none"
            /\ model' = IF f.kind = "binary" THEN f.model ELSE Garbage
            /\ onnx_model' = f.model
    /\ weight_descriptors' = NoWeights
    /\ Gives("parseFromFile", f)
    /\ UNCHANGED <<config, _onnx_models, _errors, _current_node, ctx, loop,
                   allSupported, analysis>>

\* The driver calls parseFromData (lines 740-768).  The local onnx_model is
\* never filled.
CallParseFromData(d) ==
    /\ pc = "idle"
    /\ callNo < CallLimit
    /\ caller' = "parseFromData"
    /\ callNo' = callNo + 1
    /\ onnx_model' = EmptyModel
    /\ IF d.kind = "null"
       THEN pc' = "idle" /\ result' = "false" /\ model' = Garbage
       ELSE pc' = "p_enter" /\ result' = "none" /\ model' = d.model
    /\ weight_descriptors' = NoWeights
    /\ Gives("parseFromData", d)
    /\ UNCHANGED <<config, _onnx_models, _errors, _current_node, ctx, loop,
                   allSupported, analysis>>

\* Whether printing the recorded errors reads a node the local onnx_model
\* does not have (lines 713, 776), or the first output of a node without
\* outputs (line 777).
ReadsMissingNode ==
    \E i \in 1..Len(_errors) :
        /\ _errors[i].node # NoNode
        /\ IF _errors[i].node >= Len(onnx_model.node) THEN TRUE
           ELSE /\ caller = "parseFromData"
                /\ onnx_model.node[_errors[i].node + 1].output = <<>>

\* parse returned false: every recorded error is printed and the entry
\* point returns false (lines 706-730, 769-783).  Reading a node that
\* onnx_model does not have is undefined: the process crashes, or prints
\* whatever it finds.
PrintErrors ==
    /\ pc = "pf_errors"
    /\ \/ /\ ReadsMissingNode
          /\ pc' = "ub_node"
          /\ UNCHANGED result
       \/ /\ pc' = "idle"
          /\ result' = "false"
    /\ UNCHANGED <<caller, callNo, config, wrapper, driver, model, _onnx_models, _errors,
                   _current_node, ctx, loop, allSupported, analysis>>

\* ----------------------------------------------------------- specification

Next ==
    \/ \E m \in Offered : CallParse(m)
    \/ \E a \in OfferedWeighted : CallParseWithWeightDescriptors(a)
    \/ \E m \in Offered : CallSupportsModel(m)
    \/ \E f \in OfferedFiles : CallParseFromFile(f)
    \/ \E d \in OfferedData : CallParseFromData(d)
    \/ PrintErrors
    \/ ParseEnter
    \/ ImportModelBegin
    \/ ImportInputStep
    \/ ImportInputsDone
    \/ ImportInitializerStep
    \/ SortNodes
    \/ VisitNode
    \/ ParseGraphDone
    \/ FinalizeOutput
    \/ OutputsDone
    \/ ApplyAnnotations
    \/ PostProcess
    \/ AnalysisBegin
    \/ AnalyzeNode
    \/ AnalysisDone

\* One call on a newly constructed importer, with any model.
Spec == Init /\ [][Next]_vars

\* A session of calls on one importer.
SpecSession == InitSession /\ [][Next]_vars

\* Where a call that does not return leaves the process.
Crashed == {"ub_output", "ub_back", "ub_node", "thrown"}

\* What a run of the program leaves behind: how it ended, what the call
\* returned, the errors, the registry bindings and the network of the import
\* context, the caller's collection of subgraphs.
Outcome ==
    [pc |-> pc, result |-> result, _errors |-> _errors, tensors |-> ctx.tensors,
     network |-> ctx.network, unsupportedShapeTensors |-> ctx.unsupportedShapeTensors,
     sub_graph_collection |-> sub_graph_collection]

\* The first run of the program has ended: the driver keeps what it gave
\* and got, and runs the program again, on an importer constructed as the
\* first one was.
Restart ==
    /\ run = 1
    /\ ~session
    /\ callNo = 1
    /\ pc \in {"idle"} \cup Crashed
    /\ run' = 2
    /\ firstRun' = [given |-> given, outcome |-> Outcome]
    /\ given' = NoCall
    /\ started' = [models |-> 0, errors |-> 0]
    /\ pc' = "idle"
    /\ caller' = "none"
    /\ callNo' = 0
    /\ model' = EmptyModel
    /\ _onnx_models' = <<>>
    /\ _errors' = <<>>
    /\ _current_node' = NoNode
    /\ ctx' = NewContext(ctx.network.implicitBatch)
    /\ idx' = 1
    /\ index_input' = 0
    /\ topoOrder' = <<>>
    /\ allSupported' = TRUE
    /\ error_node' = NoNode
    /\ input_node' = ""
    /\ newSubGraph' = TRUE
    /\ sub_graph_collection' = <<>>
    /\ result' = "none"
    /\ onnx_model' = EmptyModel
    /\ weight_descriptors' = NoWeights
    /\ UNCHANGED config

NextTwice ==
    \/ Next
    \/ Restart

\* Two runs of the program, each of one call on a newly constructed
\* importer: the same call, with the same argument.
SpecTwice == Init /\ [][NextTwice]_vars

\* ------------------------------------------------------------------ claims

Last(s) == s[Len(s)]

\* The node lists of the subgraphs supportsModel collected.
Segments == [k \in 1..Len(sub_graph_collection) |-> sub_graph_collection[k].first]

\* supportsModel has returned to the driver.
AnalysisReturned == caller = "supportsModel" /\ pc = "idle" /\ result # "none"

\* parse has returned to the driver.
ParseReturned ==
    /\ caller \in {"parse", "parseWithWeightDescriptors"}
    /\ pc = "idle" /\ result # "none"

IsScenarioABC == model \in {ScenarioABC("ok"), ScenarioABC("fail")}

\* C1 (as claimed): for the chain A(registered) -> B(not registered) ->
\* C(registered), supportsModel excludes C because it consumes an output of
\* the excluded B: the segments are exactly [[A]] and the result is false.
C1_ConsumerOfExcludedNodeExcluded ==
    (AnalysisReturned /\ IsScenarioABC) =>
        (Segments = <<<<0>>>> /\ result = "false")

\* C1 (amended): for the chain A(registered) -> B(not registered) ->
\* C(registered), supportsModel excludes B alone; C, which consumes B's
\* output, opens a second segment: the segments are exactly [[A], [C]], none
\* is flagged supported and the result is false.
C1_ChainSegments ==
    (AnalysisReturned /\ IsScenarioABC) =>
        /\ Segments = <<<<0>>, <<2>>>>
        /\ \A k \in 1..Len(sub_graph_collection) : ~sub_graph_collection[k].second
        /\ result = "false"

C1_Witness ==
    /\ AnalysisReturned
    /\ model = ScenarioABC("fail")
    /\ Len(_errors) = 1 /\ _errors[1].node = 1
    /\ Segments = <<<<0>>, <<2>>>>

\* Every operator type of the model is registered.
AllRegistered(m) == \A k \in 1..Len(m.node) : supportsOperator(m.node[k].op)

\* C2: when every operator type is registered and the trial import records
\* no failure, supportsModel returns true with exactly one segment, which
\* holds every node index of the graph (none for a graph without nodes) and
\* is flagged fully supported.
C2_AllRegisteredOneSegment ==
    (/\ caller = "supportsModel"
     /\ pc \in {"idle", "ub_back"}
     /\ model.ok
     /\ AllRegistered(model)
     /\ _errors = <<>>) =>
        /\ pc = "idle"
        /\ result = "true"
        /\ Len(sub_graph_collection) = 1
        /\ sub_graph_collection[1].second
        /\ Range(sub_graph_collection[1].first) = {i - 1 : i \in 1..Len(model.node)}

\* C3: a call of supportsModel (here the first call on the importer) leaves
\* the tensor registry, the annotation maps and the network of the
\* importer's context as they were constructed.
C3_TrialImportIsolated ==
    (caller = "supportsModel" /\ callNo = 1) =>
        /\ ctx.tensors = NoMap
        /\ ctx.tensorLocations = NoMap
        /\ ctx.tensorRangeMins = NoMap
        /\ ctx.tensorRangeMaxes = NoMap
        /\ ctx.layerPrecisions = NoMap
        /\ ctx.network = NewNetwork(ctx.network.implicitBatch)

\* C4: when the import meets a declared output whose name no initializer,
\* graph input or node output registered (the registry binds no value to
\* it), it fails at that step with the unbound-output error
\* (kINVALID_GRAPH, no node), and no output is marked on the network at that
\* moment.
C4_UnboundOutputFails ==
    [][(/\ pc = "im_outputs"
        /\ idx <= Len(model.output)
        /\ callNo = 1
        /\ \/ model.output[idx].name \notin DOMAIN ctx.tensors
           \/ ~IsSet(ctx.tensors[model.output[idx].name])) =>
            (/\ pc' \in {"idle", "sm_scan"}
             /\ Len(_errors') = Len(_errors) + 1
             /\ Last(_errors') = Error(NoNode, kINVALID_GRAPH, ThisFile)
             /\ ctx'.network.outputs = <<>>)]_vars

\* The registrations the statement at pc makes, in order: the reserved
\* outputs, a graph input, an initializer, or the outputs of a node.
Registrations ==
    IF pc = "im_begin" /\ ~ctx.network.implicitBatch
    THEN [k \in 1..Len(model.output) |-> [name |-> model.output[k].name, value |-> Empty]]
    ELSE IF pc = "im_inputs" /\ idx <= Len(model.input)
            /\ model.input[idx].name \in WeightNames(weight_descriptors)
    THEN IF \E k \in 1..Len(Described(weight_descriptors)) :
                /\ Described(weight_descriptors)[k].name = model.input[idx].name
                /\ Described(weight_descriptors)[k].memoryType = "cpu"
                /\ Described(weight_descriptors)[k].ok
         THEN <<[name |-> model.input[idx].name,
                 value |-> Value("weights", callNo, idx - 1, 1)]>>
         ELSE <<>>
    ELSE IF pc = "im_inputs" /\ idx <= Len(model.input)
            /\ model.input[idx].name \notin InitializerNames(model)
            /\ model.input[idx].ok = "ok"
            /\ (index_input < Len(_input_dims) =>
                    _input_dims[index_input + 1] = model.input[idx].rank)
    THEN <<[name |-> model.input[idx].name, value |-> Value("input", callNo, idx - 1, 0)]>>
    ELSE IF pc = "pg_init" /\ idx <= Len(model.initializer) /\ model.initializer[idx].ok
    THEN <<[name |-> model.initializer[idx].name, value |-> Value("weights", callNo, idx - 1, 0)]>>
    ELSE IF pc = "pg_node" /\ idx <= Len(topoOrder)
    THEN LET node == model.node[topoOrder[idx] + 1]
             outputs == ConverterOutputs(node, callNo, topoOrder[idx])
         IN  IF importNode(ctx, model, callNo, topoOrder[idx]).code # kSUCCESS
             THEN <<>>
             ELSE SelectSeq([k \in 1..Len(node.output) |->
                                [name |-> node.output[k], value |-> outputs[k]]],
                            LAMBDA r : IsSet(r.value) /\ r.name # "")
    ELSE <<>>

\* C5: a step that registers a name already bound to an identical value
\* succeeds and leaves the binding as it is; a step that registers a name
\* bound to a different value (the placeholder of a reserved output
\* included) fails the import with an error record.
C5_ConflictingBindingFails ==
    [][\A k \in 1..Len(Registrations) :
          LET r == Registrations[k]
          IN  r.name \in DOMAIN ctx.tensors =>
                 IF ctx.tensors[r.name] = r.value
                 THEN ctx'.tensors[r.name] = r.value /\ Len(_errors') = Len(_errors)
                 ELSE /\ pc' \in {"idle", "sm_scan"}
                      /\ Len(_errors') = Len(_errors) + 1
                      /\ ctx'.tensors = ctx.tensors]_vars

\* The node parseGraph is visiting.
Visited == model.node[topoOrder[idx] + 1]

\* parseGraph is about to merge the directives of the node it visits: the
\* model is a serialized network, the inputs resolved and the converter
\* succeeded.
MergingDirectives ==
    /\ pc = "pg_node" /\ idx <= Len(topoOrder)
    /\ model.trt
    /\ ~Unresolved(ctx.tensors, Visited)
    /\ Visited.conv # "fail"

\* The output positions for which the node asserts a (min, max) pair.
RangePositions(node) ==
    {i \in 1..Len(node.output) : i <= Len(node.rmin) /\ i <= Len(node.rmax)}

\* The name has a calibration range on record.
HasRange(c, name) ==
    name \in DOMAIN c.tensorRangeMins /\ name \in DOMAIN c.tensorRangeMaxes

\* The positions of the node that assert a range again.
Reasserted(c, node) == {i \in RangePositions(node) : HasRange(c, node.output[i])}

\* The pair asserted at position i equals the recorded one, as floats compare.
SameRange(c, node, i) ==
    /\ FloatEq(c.tensorRangeMins[node.output[i]], node.rmin[i])
    /\ FloatEq(c.tensorRangeMaxes[node.output[i]], node.rmax[i])

\* The node carries no other directive that could fail: it has a pair for
\* each range position, of names that are distinct and either have a range
\* on record or none at all, no location and no precision.
OnlyRanges(c, node) ==
    /\ Len(node.rmin) = Len(node.rmax) /\ Len(node.rmin) <= Len(node.output)
    /\ \A i, j \in RangePositions(node) : node.output[i] = node.output[j] => i = j
    /\ \A i \in RangePositions(node) :
          \/ HasRange(c, node.output[i])
          \/ /\ node.output[i] \notin DOMAIN c.tensorRangeMins
             /\ node.output[i] \notin DOMAIN c.tensorRangeMaxes
    /\ node.loc = <<>> /\ node.prec = "none"

\* C6: when the directives of a node are merged, asserting again the range
\* of a name that has one on record succeeds and leaves the recorded pair
\* (the whole store when the node asserts nothing new) unchanged if both the
\* min and the max compare equal to it as floats, and fails the import at
\* that node with kINVALID_GRAPH if the min or the max differs.
C6_RangeReassertion ==
    [][MergingDirectives =>
         LET again == Reasserted(ctx, Visited)
         IN  /\ (/\ again # {}
                 /\ OnlyRanges(ctx, Visited)
                 /\ \A i \in again : SameRange(ctx, Visited, i)) =>
                    /\ _errors' = _errors
                    /\ pc' = "pg_node" /\ idx' = idx + 1
                    /\ \A i \in again :
                          /\ ctx'.tensorRangeMins[Visited.output[i]] =
                                 ctx.tensorRangeMins[Visited.output[i]]
                          /\ ctx'.tensorRangeMaxes[Visited.output[i]] =
                                 ctx.tensorRangeMaxes[Visited.output[i]]
                    /\ again = RangePositions(Visited) =>
                          /\ ctx'.tensorRangeMins = ctx.tensorRangeMins
                          /\ ctx'.tensorRangeMaxes = ctx.tensorRangeMaxes
             /\ (\E i \in again : ~SameRange(ctx, Visited, i)) =>
                    /\ pc' \in {"idle", "sm_scan"}
                    /\ _errors' = Append(_errors,
                           Error(topoOrder[idx], kINVALID_GRAPH, ThisFile))]_vars

C6_Witness ==
    /\ pc = "pg_node" /\ idx = 3 /\ model.trt /\ _errors = <<>>
    /\ model.node[1].output = <<"t">> /\ model.node[2].output = <<"t">>
    /\ model.node[1].rmin = <<1>> /\ model.node[2].rmin = <<1>>
    /\ model.node[1].rmax = <<5>> /\ model.node[2].rmax = <<5>>
    /\ ctx.tensorRangeMins = [n \in {"t"} |-> 1]
    /\ ctx.tensorRangeMaxes = [n \in {"t"} |-> 5]

\* The names the running import has registered when parseGraph visits a
\* node: those of the initializers, of the graph inputs and of the outputs
\* of the nodes visited before the current one.
RegisteredBeforeVisit ==
    InitializerNames(model)
        \cup {model.input[i].name : i \in 1..Len(model.input)}
        \cup UNION {Range(model.node[topoOrder[j] + 1].output) : j \in 1..(idx - 1)}

\* Every non-empty input name of the node being visited is bound to a value
\* in the registry and was registered by an initializer, by a graph input or
\* by a node visited earlier in the running pass.
InputsBoundAtVisit ==
    \A k \in 1..Len(Visited.input) :
        Visited.input[k] # "" =>
            /\ Visited.input[k] \in DOMAIN ctx.tensors
            /\ IsSet(ctx.tensors[Visited.input[k]])
            /\ Visited.input[k] \in RegisteredBeforeVisit

InputsProduced(m) ==
    \A n \in 1..Len(m.node) :
        \A k \in 1..Len(m.node[n].input) :
            m.node[n].input[k] # "" =>
                m.node[n].input[k] \in
                    InitializerNames(m)
                        \cup {m.input[i].name : i \in 1..Len(m.input)}
                        \cup UNION {Range(m.node[i].output) : i \in 1..Len(m.node)}

C8_NodeFailureStopsPass ==
    /\ [][(pc = "pg_node" /\ _errors' # _errors) =>
             /\ ctx'.tensors = ctx.tensors
             /\ pc' \in {"idle", "sm_scan", "pf_errors"}
             /\ idx' = idx
             /\ Len(_errors') = Len(_errors) + 1
             /\ Last(_errors').node = topoOrder[idx]
             /\ Last(_errors').code \in {kINVALID_GRAPH, kUNSUPPORTED_NODE}]_vars
    /\ [](pc = "pg_node" => _errors = <<>>)

C8_Witness ==
    /\ ParseReturned /\ result = "false" /\ model.trt
    /\ _errors = <<Error(1, kINVALID_GRAPH, ThisFile)>>
    /\ Len(ctx.network.layers) = 2
    /\ \E k \in 1..Len(model.node[2].output) :
          \/ model.node[2].output[k] \notin DOMAIN ctx.tensors
          \/ ctx.tensors[model.node[2].output[k]] = Empty

\* C9: the error record a failing import appends carries the index of the
\* node being processed when the failure happens in the loop over the
\* nodes, and -1 when it happens before the loop (deserialization, input
\* registration, initializers, sorting) or after it (output finalization,
\* annotation application).
C9_ErrorNodeIndex ==
    [][(pc # "idle" /\ _errors' # _errors) =>
          /\ Len(_errors') = Len(_errors) + 1
          /\ Last(_errors').node =
                 IF pc = "pg_node" THEN topoOrder[idx] ELSE NoNode]_vars

C9_Witness ==
    /\ ParseReturned /\ result = "false"
    /\ Len(_errors) = 1 /\ _errors[1].node = NoNode
    /\ _current_node = NoNode
    /\ Len(ctx.network.layers) = 2

\* The subgraphs of supportsModel, one after the other.
RECURSIVE Flatten(_, _)
Flatten(collection, k) ==
    IF k > Len(collection) THEN <<>>
    ELSE collection[k].first \o Flatten(collection, k + 1)

\* supportsModel visited every node of the graph in the sorted order and
\* decided each: the subgraphs hold the supported nodes, in that order.
WalkComplete ==
    /\ topoOrder = toposort(model.node).order
    /\ Len(topoOrder) = Len(model.node)
    /\ idx = Len(model.node) + 1
    /\ Flatten(sub_graph_collection, 1) =
          SelectSeq(topoOrder,
                    LAMBDA n : Supported(ctx, error_node, input_node,
                                         model.node[n + 1], n))

\* C10 (as claimed): whatever error the trial import of supportsModel
\* records, supportsModel visits every node of the graph in the sorted
\* order, decides each and returns the complete list of subgraphs.
C10_TrialFailureNeverAborts ==
    (AnalysisReturned /\ callNo = 1 /\ model.ok /\ _errors # <<>>) => WalkComplete

\* C10 (amended): for a graph that can be sorted, whatever error the trial
\* import of supportsModel records, supportsModel visits every node of the
\* graph in the sorted order, decides each and returns the complete list of
\* subgraphs with the result false; for a graph that cannot be sorted it
\* returns false without visiting a node.
C10_SortedGraphWalkCompletes ==
    (AnalysisReturned /\ callNo = 1 /\ model.ok /\ _errors # <<>>) =>
        /\ result = "false"
        /\ IF toposort(model.node).ok THEN WalkComplete
           ELSE sub_graph_collection = <<>> /\ topoOrder = <<>>

C10_Witness ==
    /\ AnalysisReturned /\ model.ok
    /\ Len(_errors) = 1 /\ _errors[1].node = 1
    /\ Len(model.node) = 3 /\ idx = 4
    /\ Len(sub_graph_collection) = 2

\* The node indices supportsModel placed in a subgraph.
InSegment == Range(Flatten(sub_graph_collection, 1))

\* The position of node index n in the sorted order of supportsModel.
OrderPos(n) == CHOOSE i \in 1..Len(topoOrder) : topoOrder[i] = n

\* C11: a node whose operator type is not a key of the converter map, and
\* which the fallback converter converted in a trial import that recorded no
\* error, is placed in a subgraph by supportsModel.
C11_SuccessfulFallbackSupported ==
    (AnalysisReturned /\ callNo = 1 /\ model.ok /\ _errors = <<>>) =>
        \A n \in 1..Len(model.node) :
            (~supportsOperator(model.node[n].op) /\ model.node[n].conv # "fail") =>
                (n - 1) \in InSegment

\* C11 (amended): a node whose operator type is not a key of the converter
\* map is excluded by supportsModel even when the fallback converter
\* converted it in a trial import that recorded no error: it is in no
\* subgraph, it closes the subgraph that was open (no subgraph holds a node
\* sorted before it and a node sorted after it) and the result is false.
C11_UnregisteredExcluded ==
    (AnalysisReturned /\ callNo = 1 /\ model.ok) =>
        \A n \in 1..Len(model.node) :
            model.node[n].op \notin RegisteredOps =>
                /\ (n - 1) \notin InSegment
                /\ \A k \in 1..Len(sub_graph_collection) :
                      LET seg == sub_graph_collection[k].first
                      IN  \A i, j \in 1..Len(seg) :
                              ~(/\ OrderPos(seg[i]) < OrderPos(n - 1)
                                /\ OrderPos(n - 1) < OrderPos(seg[j]))
                /\ result = "false"

C11_Witness ==
    /\ AnalysisReturned /\ model = ScenarioABC("ok")
    /\ _errors = <<>>
    /\ Len(ctx.network.layers) = 3
    /\ ctx.network.layers[2].via = FallbackKey
    /\ InSegment = {0, 2}
    /\ Len(sub_graph_collection) = 2

\* supportsModel is walking the sorted nodes, or has returned after the walk.
Walked ==
    /\ caller = "supportsModel" /\ callNo = 1 /\ model.ok
    /\ pc = "sm_walk" \/ (pc = "idle" /\ result # "none" /\ toposort(model.node).ok)

\* C13: within every subgraph of supportsModel the node indices are in the
\* relative order of the sorted order, and of two nodes of one subgraph of
\* which one produces an input of the other, the producer comes first.
C13_SegmentOrder ==
    Walked =>
        \A k \in 1..Len(sub_graph_collection) :
            LET seg == sub_graph_collection[k].first
            IN  \A i, j \in 1..Len(seg) :
                    /\ i < j => OrderPos(seg[i]) < OrderPos(seg[j])
                    /\ (seg[i] + 1) \in Deps(model.node, seg[j] + 1) => i < j

C13_Witness ==
    /\ AnalysisReturned /\ Len(model.node) = 6 /\ result = "true"
    /\ Segments = <<<<3, 0, 4, 1, 5, 2>>>>

\* The subgraphs supportsModel flagged as supported.
Flagged == {k \in 1..Len(sub_graph_collection) : sub_graph_collection[k].second}

\* C14: when supportsModel returns, a subgraph is flagged supported only if
\* it is the only one and holds every node of the graph, and then the result
\* is true; in every other case no subgraph is flagged and the result is
\* false.
C14_FlagOnlyWhenWhole ==
    (AnalysisReturned /\ callNo = 1) =>
        IF Flagged # {}
        THEN /\ Len(sub_graph_collection) = 1
             /\ Range(sub_graph_collection[1].first) =
                    {n - 1 : n \in 1..Len(model.node)}
             /\ result = "true"
        ELSE result = "false"

\* The node indices supportsModel supports (lines 407-412).
SupportedNodes ==
    {n \in Range(topoOrder) :
        Supported(ctx, error_node, input_node, model.node[n + 1], n)}

\* C15: the subgraphs supportsModel returns for a sorted graph are the
\* maximal runs of supported nodes in the sorted order: each is non-empty
\* and holds supported nodes at consecutive positions of the order, every
\* supported node is at exactly one place of exactly one subgraph, and an
\* excluded node lies between any two consecutive subgraphs.
C15_MaximalRuns ==
    (Walked /\ pc = "idle") =>
        LET seg(k) == sub_graph_collection[k].first
            places == {<<k, i>> \in (1..Len(sub_graph_collection)) \X (1..Len(model.node)) :
                          i <= Len(seg(k))}
        IN  /\ \A k \in 1..Len(sub_graph_collection) :
                  /\ Len(seg(k)) >= 1
                  /\ \A i \in 1..Len(seg(k)) : seg(k)[i] \in SupportedNodes
                  /\ \A i \in 1..(Len(seg(k)) - 1) :
                        OrderPos(seg(k)[i + 1]) = OrderPos(seg(k)[i]) + 1
            /\ \A n \in SupportedNodes :
                  Cardinality({pl \in places : seg(pl[1])[pl[2]] = n}) = 1
            /\ \A k \in 1..(Len(sub_graph_collection) - 1) :
                  \E p \in 1..Len(topoOrder) :
                      /\ OrderPos(Last(seg(k))) < p
                      /\ p < OrderPos(seg(k + 1)[1])
                      /\ topoOrder[p] \notin SupportedNodes

C15_Witness ==
    /\ AnalysisReturned /\ _errors = <<>>
    /\ topoOrder = <<2, 1, 0>>
    /\ SupportedNodes = {0, 2}
    /\ Segments = <<<<2>>, <<0>>>>

\* C16: the input list the converter of a node receives (kept as the
\* arguments of the layer it adds) has one entry per declared input of the
\* node, in the declared order: the value the registry binds to the name
\* when the name is non-empty, the null placeholder when it is empty.
C16_ConverterInputs ==
    [][(/\ pc = "pg_node" /\ idx <= Len(topoOrder)
        /\ Len(ctx'.network.layers) = Len(ctx.network.layers) + 1) =>
            LET args == Last(ctx'.network.layers).args
            IN  /\ Len(args) = Len(Visited.input)
                /\ \A k \in 1..Len(Visited.input) :
                      args[k] = IF Visited.input[k] = "" THEN Empty
                                ELSE ctx.tensors[Visited.input[k]]]_vars

C16_Witness ==
    /\ pc = "pg_node" /\ idx = 2
    /\ model.node[1].input = <<"x", "">>
    /\ Len(ctx.network.layers) = 1
    /\ ctx.network.layers[1].args = <<ctx.tensors["x"], Empty>>
    /\ ctx.tensors["x"].k = "input"

\* An import entry point (parse, parseFromFile or parseFromData) has returned
\* to the driver.
ImportReturned ==
    /\ caller \in {"parse", "parseWithWeightDescriptors", "parseFromFile",
                  "parseFromData"}
    /\ pc = "idle" /\ result # "none"

\* The model of the call was loaded and imported: it is stored with the
\* importer and each of its declared outputs is marked on the network.
Imported ==
    /\ model.ok
    /\ _onnx_models = <<model>>
    /\ Len(ctx.network.outputs) = Len(model.output)

\* C17: an import entry point that returns true (here from the first call on
\* the importer) has loaded and imported the model and appended no error
\* record; one that returns false has appended at least one error record.
C17_FailureReported ==
    (ImportReturned /\ callNo = 1) =>
        /\ result = "true" => (Imported /\ _errors = <<>>)
        /\ result = "false" => _errors # <<>>

\* parseGraph converts the node it visits and registers its outputs in
\* this step.
NodeConverted ==
    /\ pc = "pg_node" /\ idx <= Len(topoOrder)
    /\ pc' = "pg_node" /\ idx' = idx + 1

\* What the converter returned for the node being visited.
Produced == ConverterOutputs(Visited, callNo, topoOrder[idx])

\* C18 (as claimed): after a node is converted, every non-empty output name
\* of the node is bound in the registry to the value the converter produced
\* at the same position, and the empty name is not bound.
C18_OutputsBound ==
    [][NodeConverted =>
          /\ \A k \in 1..Len(Visited.output) :
                Visited.output[k] # "" =>
                    /\ Visited.output[k] \in DOMAIN ctx'.tensors
                    /\ ctx'.tensors[Visited.output[k]] = Produced[k]
          /\ "" \notin DOMAIN ctx'.tensors]_vars

\* The output positions of the visited node that are registered: the name
\* is not empty and the value is not a null tensor.
RegisteredPositions ==
    {k \in 1..Len(Visited.output) :
        Visited.output[k] # "" /\ Produced[k].k # "empty"}

\* C18 (amended): after a node is converted, exactly the output names that
\* are non-empty and whose value at the same position is not a null tensor
\* are registered; each is bound afterwards, to the value produced at its
\* first such position when the name was unbound or only reserved before,
\* and to the value it already had otherwise; an empty name and a name with
\* a null tensor cause no registration, and no other binding changes.
C18_NamedValuesRegistered ==
    [][NodeConverted =>
          LET names == {Visited.output[k] : k \in RegisteredPositions}
              first(nm) == Min({k \in RegisteredPositions : Visited.output[k] = nm})
          IN  /\ DOMAIN ctx'.tensors = DOMAIN ctx.tensors \cup names
              /\ \A nm \in names :
                    ctx'.tensors[nm] =
                        IF nm \notin DOMAIN ctx.tensors \/ ctx.tensors[nm] = Empty
                        THEN Produced[first(nm)]
                        ELSE ctx.tensors[nm]
              /\ \A nm \in DOMAIN ctx.tensors \ names :
                    ctx'.tensors[nm] = ctx.tensors[nm]]_vars

C18_Witness ==
    /\ pc = "pg_node" /\ idx = 2
    /\ model.node[1].output = <<"", "z">>
    /\ ctx.tensors["z"] = Value("node", 1, 0, 2)
    /\ "" \notin DOMAIN ctx.tensors

\* The phase of importModel a statement belongs to: 1 initializing (the
\* outputs are reserved, the inputs and the initializers registered, the
\* nodes sorted), 2 importing nodes, 3 finalizing outputs, 4 applying the
\* annotations and post-processing; 0 outside importModel.
PhaseOf(p) ==
    IF p \in {"im_begin", "im_inputs", "pg_init"} THEN 1
    ELSE IF p = "pg_node" THEN 2
    ELSE IF p = "im_outputs" THEN 3
    ELSE IF p \in {"im_annot", "im_post"} THEN 4
    ELSE 0

\* Every initializer and every graph input of the model is registered.
InputsRegistered(c) ==
    /\ \A k \in 1..Len(model.initializer) :
          /\ model.initializer[k].name \in DOMAIN c.tensors
          /\ c.tensors[model.initializer[k].name] # Empty
    /\ \A k \in 1..Len(model.input) :
          /\ model.input[k].name \in DOMAIN c.tensors
          /\ c.tensors[model.input[k].name] # Empty

\* C19: within a call of importModel the phases follow one another in the
\* order initializing, importing nodes, finalizing outputs, done: a step
\* stays in its phase, enters the next one or leaves importModel; the first
\* node is visited when every initializer and graph input is registered;
\* outputs are marked only while finalizing, which begins when every node
\* was visited; annotations and post-processing touch the network only after
\* every declared output was finalized; and a step that records a failure
\* leaves importModel, which runs no step once an error is recorded.
C19_PhaseOrder ==
    /\ [][/\ PhaseOf(pc') \in {0, PhaseOf(pc), PhaseOf(pc) + 1}
          /\ (PhaseOf(pc) = 0 /\ PhaseOf(pc') = 1) => pc' = "im_begin"
          /\ (PhaseOf(pc) = 1 /\ PhaseOf(pc') = 2) =>
                (InputsRegistered(ctx') /\ ctx'.network.layers = <<>>)
          /\ (PhaseOf(pc) = 2 /\ PhaseOf(pc') = 3) =>
                (Len(topoOrder) = Len(model.node) /\ idx = Len(model.node) + 1)
          /\ ctx'.network.outputs # ctx.network.outputs => PhaseOf(pc) = 3
          /\ (PhaseOf(pc) = 3 /\ PhaseOf(pc') = 4) =>
                (idx = Len(model.output) + 1
                    /\ Len(ctx.network.outputs) = Len(model.output))
          /\ (\/ ctx'.network.locations # ctx.network.locations
              \/ ctx'.network.ranges # ctx.network.ranges
              \/ ctx'.network.precisions # ctx.network.precisions
              \/ ctx'.unsupportedShapeTensors # ctx.unsupportedShapeTensors) =>
                PhaseOf(pc) = 4
          /\ (PhaseOf(pc) > 0 /\ _errors' # _errors) => PhaseOf(pc') = 0]_vars
    /\ [](PhaseOf(pc) > 0 => _errors = <<>>)

C19_Witness ==
    /\ ParseReturned /\ result = "true"
    /\ Len(model.initializer) = 1 /\ Len(model.input) = 2 /\ Len(model.node) = 1
    /\ InputsRegistered(ctx)
    /\ Len(ctx.network.layers) = 1 /\ Len(ctx.network.outputs) = 1

\* C20: in every state of the annotation store a tensor name has a recorded
\* range minimum exactly when it has a recorded range maximum, and applying
\* the ranges never meets a minimum without its maximum.
C20_MinIffMax ==
    /\ DOMAIN ctx.tensorRangeMins = DOMAIN ctx.tensorRangeMaxes
    /\ pc # "thrown"

\* The second run of the program has ended.
SecondRunEnded == run = 2 /\ callNo = 1 /\ pc \in {"idle"} \cup Crashed

\* C12: two runs on the same input, each on a newly constructed importer
\* and with an empty collection, end alike: the same registry bindings and
\* network elements, the same subgraphs with the same flags, the same
\* result.
C12_Deterministic == SecondRunEnded => Outcome = firstRun.outcome

\* Two runs that both return end alike.
C12_ReturnedRunsAgree ==
    (SecondRunEnded /\ pc = "idle" /\ firstRun.outcome.pc = "idle") =>
        Outcome = firstRun.outcome

\* The tensor and layer names the import context has annotations for.
AnnotatedTensors(c) ==
    DOMAIN c.tensorLocations \cup DOMAIN c.tensorRangeMins \cup DOMAIN c.tensorRangeMaxes

\* Every recorded annotation is set on the element of its name.
AnnotationsApplied(net, c) ==
    /\ \A n \in DOMAIN c.tensorLocations :
          n \in DOMAIN net.locations /\ net.locations[n] = c.tensorLocations[n]
    /\ \A n \in DOMAIN c.tensorRangeMins \cup DOMAIN c.tensorRangeMaxes :
          /\ n \in DOMAIN c.tensorRangeMins \cap DOMAIN c.tensorRangeMaxes
          /\ n \in DOMAIN net.ranges
          /\ net.ranges[n] = <<c.tensorRangeMins[n], c.tensorRangeMaxes[n]>>
    /\ \A n \in DOMAIN c.layerPrecisions :
          n \in DOMAIN net.precisions /\ net.precisions[n] = c.layerPrecisions[n]

\* C21: when the annotations of a model produced by TensorRT are applied, a
\* recorded tensor name (placement, range) or layer name (precision) without
\* an element in the built network makes the import fail with
\* kINVALID_GRAPH, and when the step succeeds every recorded annotation is
\* set on the element of its name.
C21_AnnotationsLookedUp ==
    [][(pc = "im_annot" /\ model.trt) =>
          /\ (\/ ~(AnnotatedTensors(ctx) \subseteq TensorNames(ctx.network))
              \/ ~(DOMAIN ctx.layerPrecisions \subseteq LayerNames(ctx.network))) =>
                (/\ Len(_errors') = Len(_errors) + 1
                 /\ Last(_errors').code = kINVALID_GRAPH
                 /\ pc' # "im_post")
          /\ pc' = "im_post" => AnnotationsApplied(ctx'.network, ctx')]_vars

\* C22: when supportsModel has returned, no node that consumes a tensor
\* whose name removeShapeTensorCasts recorded in the import of the model is
\* in a subgraph.
C22_ConsumersOfIllegalShapeOutputExcluded ==
    (AnalysisReturned /\ callNo = 1 /\ model.ok) =>
        \A n \in 1..Len(model.node) :
            (\E k \in 1..Len(model.node[n].input) :
                 /\ model.node[n].input[k] # ""
                 /\ model.node[n].input[k] \in ctx.unsupportedShapeTensors) =>
                (n - 1) \notin InSegment

\* The node supportsModel is looking at.
Analyzed == model.node[topoOrder[idx] + 1]

\* C23: a node that supportsModel leaves out of the subgraphs although its
\* operator is registered, it consumes no unsupported shape-tensor input, its
\* name is not recorded as an illegal shape output and it is not the failing
\* node, has a non-empty input that is the failing graph input or its
\* recorded lineage; and looking at a node leaves the lineage map as it was.
C23_FailingInputRule ==
    [][(pc = "sm_walk" /\ idx <= Len(topoOrder)) =>
          /\ (/\ sub_graph_collection' = sub_graph_collection
              /\ Analyzed.op \in RegisteredOps
              /\ ~checkShapeTensorType(ctx.network, Analyzed)
              /\ Analyzed.name \notin ctx.unsupportedShapeTensors
              /\ topoOrder[idx] # error_node) =>
                 \E k \in 1..Len(Analyzed.input) :
                     /\ Analyzed.input[k] # ""
                     /\ \/ Analyzed.input[k] = input_node
                        \/ /\ input_node \in DOMAIN ctx.loopTensors
                           /\ ctx.loopTensors[input_node] = Analyzed.input[k]
          /\ ctx'.loopTensors = ctx.loopTensors]_vars

\* The tensors that are inputs of the network.
NetworkInputs(net) == {net.inputs[k].t : k \in 1..Len(net.inputs)}

\* C24: when parse has returned true, no tensor marked as an output of the
\* network is one of its inputs; a declared output bound to a network input
\* is marked as the output of an identity layer fed by that input, the
\* marked tensor has the declared name and the input another name.
C24_OutputNeverInput ==
    (ParseReturned /\ result = "true" /\ callNo = 1) =>
        LET net == ctx.network
        IN  /\ Range(net.outputs) \cap NetworkInputs(net) = {}
            /\ Len(net.outputs) = Len(model.output)
            /\ \A k \in 1..Len(model.output) :
                  LET name == model.output[k].name
                      v == ctx.tensors[name]
                  IN  v \in NetworkInputs(net) =>
                         /\ \E l \in 1..Len(net.layers) :
                               /\ net.layers[l].args = <<v>>
                               /\ net.layers[l].outs = <<net.outputs[k]>>
                         /\ net.tname[net.outputs[k]] = name
                         /\ net.tname[v] # name

C24_Witness ==
    /\ ParseReturned /\ result = "true" /\ callNo = 1
    /\ \E k \in 1..Len(model.output) :
          /\ ctx.tensors[model.output[k].name] \in NetworkInputs(ctx.network)
          /\ ctx.network.outputs[k].k = "identity"

\* C25: a dimension override given for a declared graph input of another
\* rank makes the step fail (an error is recorded, importModel is left, no
\* input is added), and every input of the network built with an override
\* has the rank its declaration states.
C25_OverrideRankChecked ==
    /\ [][(/\ pc = "im_inputs" /\ idx <= Len(model.input)
           /\ model.input[idx].name \notin WeightNames(weight_descriptors)
           /\ model.input[idx].name \notin InitializerNames(model)
           /\ index_input < Len(_input_dims)
           /\ _input_dims[index_input + 1] # model.input[idx].rank) =>
              /\ Len(_errors') = Len(_errors) + 1
              /\ PhaseOf(pc') = 0
              /\ ctx'.network.inputs = ctx.network.inputs]_vars
    /\ [](callNo = 1 =>
            \A k \in 1..Len(ctx.network.inputs) :
                ctx.network.inputs[k].setup =>
                    ctx.network.inputs[k].rank =
                        model.input[ctx.network.inputs[k].t.i + 1].rank)

C25_Witness ==
    /\ ParseReturned /\ result = "false"
    /\ _input_dims = <<2>>
    /\ Len(model.input) > 0
    /\ model.input[1].rank = 3 /\ model.input[1].ok = "ok"
    /\ _errors = <<Error(NoNode, kINVALID_VALUE, "x")>>
    /\ ctx.network.inputs = <<>>

\* C26: the failing node index and the failing input name supportsModel
\* excludes nodes by are those of the error its own trial import recorded
\* (the last one, when the trial import failed): none when the trial import
\* succeeded, the node index of that error when it has one, its input name
\* otherwise.
C26_OwnFailureOnly ==
    [][(pc = "sm_scan" /\ pc' = "sm_walk") =>
          LET failed == ~allSupported
              own == Last(_errors)
          IN  /\ error_node' = IF failed /\ own.node # NoNode THEN own.node ELSE NoNode
              /\ input_node' = IF failed /\ own.node = NoNode THEN own.file ELSE ""]_vars

\* C27: when parseFromFile or parseFromData prints the recorded errors
\* after a failed parse, every error that has a node index has one within
\* the node list of the local onnx_model.
C27_DiagnosticNodeInModel ==
    pc = "pf_errors" =>
        \A i \in 1..Len(_errors) :
            _errors[i].node # NoNode => _errors[i].node < Len(onnx_model.node)

\* A call of parse returns to the driver in this step.
ParseReturns ==
    /\ caller \in {"parse", "parseWithWeightDescriptors"}
    /\ pc # "idle" /\ pc' = "idle"

\* C28: while a call of parse runs, no step removes or changes an entry of
\* the stored-model list or of the error list; when the call returns, the
\* stored-model list is one entry longer than when it was made (also when
\* the bytes do not deserialize), and the error list is one entry longer
\* when it returns false and as long when it returns true.
C28_ListsGrowPerCall ==
    /\ [][(caller \in {"parse", "parseWithWeightDescriptors"}) =>
             (/\ Len(_onnx_models') >= Len(_onnx_models)
              /\ SubSeq(_onnx_models', 1, Len(_onnx_models)) = _onnx_models
              /\ Len(_errors') >= Len(_errors)
              /\ SubSeq(_errors', 1, Len(_errors)) = _errors)]_vars
    /\ [][ParseReturns =>
            /\ result' \in {"true", "false"}
            /\ Len(_onnx_models') = started.models + 1
            /\ Len(_errors') = started.errors + (IF result' = "false" THEN 1 ELSE 0)]_vars

C28_Witness ==
    /\ ParseReturned /\ callNo = 2 /\ result = "false"
    /\ ~model.ok
    /\ started = [models |-> 1, errors |-> 1]
    /\ Len(_onnx_models) = 2 /\ Len(_errors) = 2
    /\ _onnx_models[1].ok /\ Len(_onnx_models[1].node) = 2

====
